---- MODULE Spec2Model ----
(***************************************************************************)
(* A model of the project-tracker bot.  Its first part is the retry        *)
(* utility (utils/retry.js): retryWithBackoff and its preset               *)
(* retryDatabaseOperation; the parts after it model the services and       *)
(* handlers that the bot builds around the database, Slack and OpenAI,     *)
(* each under a specification of its own.                                  *)
(*                                                                         *)
(* One behaviour of Spec is one call of the utility.  The wrapped          *)
(* operation fn and the runtime's timer are the environment: fn resolves   *)
(* with a value or rejects with an Error object after some time, and a     *)
(* timer set for d milliseconds fires d milliseconds later or later.       *)
(***************************************************************************)
EXTENDS Integers, Sequences, FiniteSets, TLC

\* ------------------------------------------------------------------ bounds

\* The largest maxRetries a caller passes explicitly in the model.
MaxRetriesOpt == 2

\* baseDelay and maxDelay values a caller passes explicitly (milliseconds).
BaseDelayOpts == {300, 5000}
MaxDelayOpts == {2000, 30000}

\* How long one invocation of fn takes, and how late a timer may fire.
FnDurations == {0, 7}
TimerLateness == {0, 3}

\* The Error objects fn rejects with, and the values it resolves with.
Errors ==
  { [name |-> "Error", message |-> "connect ECONNREFUSED"],
    [name |-> "PrismaClientInitializationError", message |-> "authentication failed"] }
Values == {"V1", "V2"}

\* The Error objects the operation of testConnection rejects with: those of the two
\* Prisma calls and those of its two timeouts.
ConnectError == [name |-> "PrismaClientInitializationError", message |-> "Can't reach database server"]
QueryError == [name |-> "PrismaClientKnownRequestError", message |-> "Connection reset"]
ConnectTimeoutError == [name |-> "Error", message |-> "Database connection timeout after 30s"]
QueryTimeoutError == [name |-> "Error", message |-> "Database query timeout after 15s"]
DbErrors == {ConnectError, QueryError, ConnectTimeoutError, QueryTimeoutError}

\* How long a Prisma call that settles before its timeout takes.
PrismaDurations == {40}

\* `let lastError;` and a promise that has not settled: JavaScript's undefined.
Undefined == [name |-> "undefined", message |-> ""]
NoValue == "undefined"

\* ------------------------------------------------------------------- state

VARIABLES
  pc,          \* "idle" | "loop" | "awaitFn" | "sleeping" | "done"
  entry,       \* the exported function that was called
  maxRetries,  \* the destructured options
  baseDelay,
  maxDelay,
  attempt,     \* the for loop's counter
  lastError,   \* the local lastError
  timerDue,    \* when the pending setTimeout is due
  now,         \* the clock, in milliseconds
  outcome,     \* "pending" | "returned" | "thrown": how the returned promise settled
  result,      \* the value it resolved with
  thrown,      \* the error it rejected with
  invokedAt,   \* history: the time of each invocation of fn
  failures,    \* history: [at, error] of each rejection of fn
  resolved,    \* history: [at, value] of each fulfilment of fn
  delays,      \* history: the delay of each setTimeout
  wokeAt,      \* history: the time each setTimeout fired
  log          \* history: the logger calls

vars ==
  << pc, entry, maxRetries, baseDelay, maxDelay, attempt, lastError, timerDue, now,
     outcome, result, thrown, invokedAt, failures, resolved, delays, wokeAt, log >>

\* The shape of the state.
TypeOK ==
  /\ pc \in {"idle", "loop", "awaitFn", "sleeping", "done"}
  /\ entry \in {"none", "retryWithBackoff", "retryDatabaseOperation"}
  /\ maxRetries \in Nat /\ baseDelay \in Nat \ {0} /\ maxDelay \in Nat \ {0}
  /\ attempt \in Nat
  /\ lastError \in Errors \cup DbErrors \cup {Undefined}
  /\ timerDue \in Nat /\ now \in Nat
  /\ outcome \in {"pending", "returned", "thrown"}
  /\ result \in Values \cup {NoValue}
  /\ thrown \in Errors \cup DbErrors \cup {Undefined}
  /\ \A i \in DOMAIN invokedAt : invokedAt[i] \in Nat
  /\ \A i \in DOMAIN failures :
       failures[i].at \in Nat /\ failures[i].error \in Errors \cup DbErrors
  /\ \A i \in DOMAIN resolved : resolved[i].at \in Nat /\ resolved[i].value \in Values
  /\ \A i \in DOMAIN delays : delays[i] \in Nat
  /\ \A i \in DOMAIN wokeAt : wokeAt[i] \in Nat
  /\ \A i \in DOMAIN log : log[i].kind \in {"failed", "retrying", "succeeded", "exhausted"}

\* ----------------------------------------------------------------- helpers

\* Math.pow(2, n) for an integer n >= 0.
RECURSIVE MathPow2(_)
MathPow2(n) ==
  IF n <= 0 THEN 1 ELSE 2 * MathPow2(n - 1)

\* Mutant: Math.max where Math.min is meant.
MathMax(a, b) ==
  IF a > b THEN a ELSE b

MathMin(a, b) ==
  IF a < b THEN a ELSE b

\* A destructuring default: the option's value unless the key is absent.
OptionOr(options, key, default) ==
  IF key \in DOMAIN options THEN options[key] ELSE default

DefaultMaxRetries == 3
DefaultBaseDelay == 1000
DefaultMaxDelay == 10000

\* Mutant: the loop stops one attempt early (`attempt <= maxRetries`).
LoopConditionOffByOne(a, n) ==
  a <= n

\* The for loop's condition.
LoopCondition(a, n) ==
  a <= n + 1

\* Mutant: the last retry is taken without its wait (`attempt < maxRetries`).
RetryLeftStrict(a, n) ==
  a < n

\* Mutant: a wait follows the final failure too (`attempt <= maxRetries + 1`).
RetryLeftAlways(a, n) ==
  a <= n + 1

\* The catch block's test: is a retry left after failed attempt a?
RetryLeft(a, n) ==
  a <= n

\* Mutant: the first error is kept (`lastError = lastError || error`).
RecordedFirst(previous, e) ==
  IF previous = Undefined THEN e ELSE previous

\* `lastError = error`: what the catch block keeps of the error it caught.
Recorded(previous, e) ==
  e

\* Mutant: every success is logged.
SuccessLoggedAlways(a) ==
  TRUE

\* `if (attempt > 1)`: only a success on a retry is logged.
SuccessLogged(a) ==
  a > 1

\* Mutant: the exponent is the attempt, not the attempt minus one.
BackoffDelayOneBased(base, cap, a) ==
  MathMin(base * MathPow2(a), cap)

\* The delay before the retry that follows failed attempt a.
BackoffDelay(base, cap, a) ==
  MathMin(base * MathPow2(a - 1), cap)

LogEntry(level, kind, a, d, msg) ==
  [level |-> level, kind |-> kind, attempt |-> a, delay |-> d, message |-> msg]

\* Mutant: the preset leaves maxDelay to its default of 10000.
DatabaseRetryOptionsNoCap ==
  [maxRetries |-> 5, baseDelay |-> 1000]

\* The options retryDatabaseOperation passes on.
DatabaseRetryOptions ==
  [maxRetries |-> 5, baseDelay |-> 1000, maxDelay |-> 30000]

\* The options objects a direct caller of retryWithBackoff passes: every key is
\* optional.
Restrict(f, S) ==
  [k \in S |-> f[k]]

CallerOptions ==
  { Restrict([maxRetries |-> n, baseDelay |-> b, maxDelay |-> c], S) :
      n \in 0..MaxRetriesOpt, b \in BaseDelayOpts, c \in MaxDelayOpts,
      S \in SUBSET {"maxRetries", "baseDelay", "maxDelay"} }

\* -------------------------------------------------------------------- Init

Init ==
  /\ pc = "idle"
  /\ entry = "none"
  /\ maxRetries = DefaultMaxRetries
  /\ baseDelay = DefaultBaseDelay
  /\ maxDelay = DefaultMaxDelay
  /\ attempt = 0
  /\ lastError = Undefined
  /\ timerDue = 0
  /\ now = 0
  /\ outcome = "pending"
  /\ result = NoValue
  /\ thrown = Undefined
  /\ invokedAt = << >>
  /\ failures = << >>
  /\ resolved = << >>
  /\ delays = << >>
  /\ wokeAt = << >>
  /\ log = << >>

\* ----------------------------------------------------------------- actions

\* retryWithBackoff's prologue: the options are destructured with their defaults,
\* lastError is declared and the loop starts at attempt 1.
Enter(options, via) ==
  /\ pc = "idle"
  /\ entry' = via
  /\ maxRetries' = OptionOr(options, "maxRetries", DefaultMaxRetries)
  /\ baseDelay' = OptionOr(options, "baseDelay", DefaultBaseDelay)
  /\ maxDelay' = OptionOr(options, "maxDelay", DefaultMaxDelay)
  /\ lastError' = Undefined
  /\ attempt' = 1
  /\ pc' = "loop"
  /\ UNCHANGED << timerDue, now, outcome, result, thrown, invokedAt, failures,
                  resolved, delays, wokeAt, log >>

RetryWithBackoff(options) ==
  Enter(options, "retryWithBackoff")

RetryDatabaseOperation ==
  Enter(DatabaseRetryOptions, "retryDatabaseOperation")

\* The loop test: either fn is invoked for this attempt, or the loop is left and
\* lastError is thrown.
LoopTest ==
  /\ pc = "loop"
  /\ IF LoopCondition(attempt, maxRetries)
       THEN /\ pc' = "awaitFn"
            /\ invokedAt' = Append(invokedAt, now)
            /\ UNCHANGED << outcome, thrown >>
       ELSE /\ pc' = "done"
            /\ outcome' = "thrown"
            /\ thrown' = lastError
            /\ UNCHANGED invokedAt
  /\ UNCHANGED << entry, maxRetries, baseDelay, maxDelay, attempt, lastError, timerDue,
                  now, result, failures, resolved, delays, wokeAt, log >>

\* fn() resolved with v after dur milliseconds: logged if it was a retry, returned.
FnResolves(v, dur) ==
  /\ pc = "awaitFn"
  /\ now' = now + dur
  /\ resolved' = Append(resolved, [at |-> now', value |-> v])
  /\ log' = IF SuccessLogged(attempt)
              THEN Append(log, LogEntry("info", "succeeded", attempt, 0, ""))
              ELSE log
  /\ outcome' = "returned"
  /\ result' = v
  /\ pc' = "done"
  /\ UNCHANGED << entry, maxRetries, baseDelay, maxDelay, attempt, lastError, timerDue,
                  thrown, invokedAt, failures, delays, wokeAt >>

\* fn() rejected with e after dur milliseconds: the catch block.
Catch(e, dur, retry) ==
  /\ pc = "awaitFn"
  /\ now' = now + dur
  /\ lastError' = Recorded(lastError, e)
  /\ failures' = Append(failures, [at |-> now', error |-> e])
  /\ IF retry
       THEN LET delay == BackoffDelay(baseDelay, maxDelay, attempt)
            IN /\ log' = log \o << LogEntry("warn", "failed", attempt, 0, e.message),
                                   LogEntry("info", "retrying", attempt, delay, "") >>
               /\ timerDue' = now' + delay
               /\ delays' = Append(delays, delay)
               /\ pc' = "sleeping"
               /\ UNCHANGED attempt
       ELSE /\ log' = Append(log, LogEntry("error", "exhausted", maxRetries + 1, 0, ""))
            /\ attempt' = attempt + 1
            /\ pc' = "loop"
            /\ UNCHANGED << timerDue, delays >>
  /\ UNCHANGED << entry, maxRetries, baseDelay, maxDelay, outcome, result, thrown,
                  invokedAt, resolved, wokeAt >>

\* Mutant: only a plain Error is retried, any other error ends the retries.
FnRejectsClassified(e, dur) ==
  Catch(e, dur, RetryLeft(attempt, maxRetries) /\ e.name = "Error")

\* Whatever e is, the retry is decided by the attempt counter alone.
FnRejects(e, dur) ==
  Catch(e, dur, RetryLeft(attempt, maxRetries))

\* Mutant: the promise around the timer never resolves
\* (`new Promise(resolve => setTimeout(() => {}, delay))`).
TimerNeverResolves(late) ==
  /\ FALSE
  /\ UNCHANGED vars

\* The setTimeout of the retry wait fires, late milliseconds after it was due: the
\* await ends, the catch block is left and the loop increments attempt.
TimerFires(late) ==
  /\ pc = "sleeping"
  /\ now' = timerDue + late
  /\ wokeAt' = Append(wokeAt, now')
  /\ attempt' = attempt + 1
  /\ pc' = "loop"
  /\ UNCHANGED << entry, maxRetries, baseDelay, maxDelay, lastError, timerDue, outcome,
                  result, thrown, invokedAt, failures, resolved, delays, log >>

\* ------------------------------------------------- the rest of the application

\* testConnection (config/database.js): the operation it hands to
\* retryDatabaseOperation.
VARIABLES
  dbPc,          \* "idle" | "connecting" | "querying": the await the operation is at
  pendingCalls,  \* the Prisma calls that have not settled: [attempt, call]
  dbTrace        \* history: [attempt, ev, at] of the operation's steps

dbVars == << dbPc, pendingCalls, dbTrace >>

DbInit ==
  /\ dbPc = "idle"
  /\ pendingCalls = {}
  /\ dbTrace = << >>

\* The database tables (prisma/schema.prisma), the handler invocations working on
\* them and the reset-data script.
VARIABLES
  users,       \* table users: [id, slackUserId, name, email, role]
  projects,    \* table projects: [id, name, clientName, status, assignedTo, deadline, updatedAt]
  updates,     \* table project_updates: [id, projectId, userId, content, aiAnalysis,
               \*                         risksIdentified, opportunitiesNoted]
  nextId,      \* number of ids @default(cuid()) has generated, by table
  clock,       \* the value of new Date() at the latest write
  h,           \* the handler invocation each Slack request slot is running
  started,     \* number of handler invocations and script runs started
  resetPc,     \* scripts/reset-data.js: "idle" | "updates" | "projects" | "users" | "done"
  created      \* history: the [id, table] of every record a bot operation created

storeVars == << users, projects, updates, nextId, clock, h, started, resetPc, created >>

Null == "null"

\* The two slots in which Bolt runs handler invocations concurrently.
Procs == {1, 2}

\* A slot with no invocation in it.
IdleHandler ==
  [op |-> "none", pc |-> "idle", slackId |-> Null, userName |-> NoValue,
   projectId |-> NoValue, clientName |-> Null, content |-> Null, newStatus |-> Null, newAssignee |-> Null,
   deadline |-> Null, who |-> "creator", user |-> Null, project |-> Null,
   projectStatus |-> Null, projectAssignedTo |-> Null,
   ai |-> [analysis |-> [type |-> "undefined"], risks |-> [type |-> "undefined"],
           opportunities |-> [type |-> "undefined"]],
   assigneeDbId |-> Null, assigneeChanged |-> FALSE, ack |-> "none",
   ackErrors |-> Null, msg |-> "none",
   error |-> Null, update |-> Null]

StoreInit ==
  /\ users = {} /\ projects = {} /\ updates = {}
  /\ nextId = [users |-> 0, projects |-> 0, updates |-> 0] /\ clock = 0
  /\ h = [p \in Procs |-> IdleHandler]
  /\ started = 0
  /\ resetPc = "idle"
  /\ created = {}

\* The "Update Project" modal as Slack shows it, and the invocation of
\* handleClientFilterSelection.
VARIABLES
  view,   \* the view Slack holds: [type, callback_id, title, submit, close, blocks]
  cf      \* the invocation: [pc, selectedClient, currentView, updatedView]

viewVars == << view, cf >>

NoView ==
  [type |-> "none", callback_id |-> Null, title |-> Null, submit |-> Null,
   close |-> Null, blocks |-> << >>]

ViewInit ==
  /\ view = NoView
  /\ cf = [pc |-> "idle", selectedClient |-> Null, currentView |-> NoView,
           updatedView |-> NoView]

\* WeeklyDigestService: its fields, node-cron's tasks and the runs of
\* generateAndSendDigest.
VARIABLES
  isScheduled,       \* this.isScheduled
  cronTask,          \* this.cronTask: a task of node-cron, or null
  liveTasks,         \* the tasks of node-cron that are scheduled and not stopped
  tasksCreated,      \* number of cron.schedule calls made
  callLog,           \* history: the scheduleWeeklyDigest / stopScheduledDigest calls
  generalChannelId,  \* process.env.GENERAL_CHANNEL_ID, or undefined
  run                \* the run of generateAndSendDigest of each trigger

digestVars ==
  << isScheduled, cronTask, liveTasks, tasksCreated, callLog, generalChannelId, run >>

\* What starts a run: the cron task, or POST /trigger-digest.
DigestRuns == {"cron", "manual"}

IdleRun ==
  [pc |-> "idle", failed |-> FALSE, posted |-> << >>, fallbackAttempts |-> 0,
   outcome |-> "none"]

\* The state the constructor of WeeklyDigestService leaves.
DigestConstructed ==
  /\ isScheduled = FALSE
  /\ cronTask = Null
  /\ liveTasks = {}
  /\ tasksCreated = 0
  /\ callLog = << >>
  /\ run = [r \in DigestRuns |-> IdleRun]

DigestInit ==
  /\ DigestConstructed
  /\ generalChannelId = "C0GENERAL"

\* ProjectTrackerBot (index.js): its fields, the shutdown state of the module, the
\* health monitor's counters and the HTTP exchange.
VARIABLES
  botPc,           \* where start() stands
  stopPc,          \* where stop(), called by gracefulShutdown, stands
  slackApp,        \* this.slackApp: "null" | "created" | "started" | "stopped"
  server,          \* this.server: "null" | "listening" | "closing" | "closed"
  database,        \* the Prisma connection: "unknown" | "connected" | "disconnected"
  isShuttingDown,  \* let isShuttingDown
  shutdownTimeout, \* the 25 s timer of gracefulShutdown is armed
  timerFired,      \* history: the 25 s timer fired
  signals,         \* history: the number of SIGTERM / SIGINT received
  exitCode,        \* the code process.exit was called with, NoExit while the process runs
  events,          \* history: what start(), stop() and cleanup() completed, in order
  requestCount,    \* healthMonitor's requestCount
  errorCount,      \* healthMonitor's errorCount
  pendingTrigger,  \* a POST /trigger-digest awaits its digest run
  requestLog,      \* the urls requestLogger logged, in order of arrival
  responses,       \* the responses sent, in order: [url, status, body]
  healthSeen       \* history: the values of stopPc at which /health was answered

lifeVars ==
  << botPc, stopPc, slackApp, server, database, isShuttingDown, shutdownTimeout,
     timerFired, signals, exitCode, events >>

monitorVars ==
  << requestCount, errorCount, pendingTrigger, requestLog, responses, healthSeen >>

httpVars == << lifeVars, monitorVars >>

\* No process.exit yet.
NoExit == -1

\* The state the constructor of ProjectTrackerBot and the module's lets leave.
HttpInit ==
  /\ botPc = "constructed"
  /\ stopPc = "idle"
  /\ slackApp = "null"
  /\ server = "null"
  /\ database = "unknown"
  /\ isShuttingDown = FALSE
  /\ shutdownTimeout = FALSE
  /\ timerFired = FALSE
  /\ signals = 0
  /\ exitCode = NoExit
  /\ events = << >>
  /\ requestCount = 0
  /\ errorCount = 0
  /\ pendingTrigger = FALSE
  /\ requestLog = << >>
  /\ responses = << >>
  /\ healthSeen = {}

appVars == << dbVars, storeVars, viewVars, digestVars, httpVars >>

AppInit ==
  /\ DbInit
  /\ StoreInit
  /\ ViewInit
  /\ DigestInit
  /\ HttpInit

allVars == << vars, appVars >>

\* Before anything was called.
InitAll ==
  Init /\ AppInit

\* ---------------------------------------------- the retry utility on its own

Next ==
  \/ \E options \in CallerOptions : RetryWithBackoff(options)
  \/ RetryDatabaseOperation
  \/ LoopTest
  \/ \E v \in Values, dur \in FnDurations : FnResolves(v, dur)
  \/ \E e \in Errors, dur \in FnDurations : FnRejects(e, dur)
  \/ \E late \in TimerLateness : TimerFires(late)

\* The same steps, with the rest of the application standing still.
NextRetry ==
  \/ UNCHANGED appVars /\ \E options \in CallerOptions : RetryWithBackoff(options)
  \/ UNCHANGED appVars /\ RetryDatabaseOperation
  \/ UNCHANGED appVars /\ LoopTest
  \/ UNCHANGED appVars /\ \E v \in Values, dur \in FnDurations : FnResolves(v, dur)
  \/ UNCHANGED appVars /\ \E e \in Errors, dur \in FnDurations : FnRejects(e, dur)
  \/ UNCHANGED appVars /\ \E late \in TimerLateness : TimerFires(late)

Spec == InitAll /\ [][NextRetry]_allVars

\* fn settles and timers fire: every step that is enabled is eventually taken.
FairSpec == Spec /\ WF_vars(Next)

\* ------------------------------------------------------------------ claims

Last(s) ==
  s[Len(s)]

\* The operation failed on every invocation made so far.
AlwaysFailed ==
  Len(failures) = Len(invokedAt)

\* C1: with maxRetries = N >= 0, an operation that fails on every invocation is
\* invoked exactly N + 1 times and only then is failure reported: fn is never invoked
\* more than N + 1 times, failure is reported only after N + 1 failed invocations, and
\* a call that ends with every invocation failed is a reported failure.
C1_AlwaysFailingInvokedNPlusOne ==
  /\ Len(invokedAt) <= maxRetries + 1
  /\ outcome = "thrown" => Len(invokedAt) = maxRetries + 1 /\ AlwaysFailed
  /\ (pc = "done" /\ AlwaysFailed) => outcome = "thrown" /\ Len(invokedAt) = maxRetries + 1

C1_Witness ==
  /\ entry = "retryWithBackoff"
  /\ outcome = "thrown"
  /\ maxRetries = 2
  /\ Len(invokedAt) = 3

\* C2: when the operation first succeeds on its k-th invocation (1 <= k <=
\* maxRetries + 1), fn was invoked exactly k times, exactly k - 1 delays were waited,
\* the value returned is that invocation's, and no invocation follows the return.
C2_SuccessOnKth ==
  /\ [](outcome = "returned" =>
          LET k == Len(invokedAt)
          IN /\ 1 <= k /\ k <= maxRetries + 1
             /\ Len(failures) = k - 1
             /\ Len(delays) = k - 1
             /\ Len(wokeAt) = k - 1
             /\ Len(resolved) = 1
             /\ result = resolved[1].value
             /\ resolved[1].at >= invokedAt[k]
             /\ pc = "done")
  /\ [][outcome = "returned" => invokedAt' = invokedAt /\ wokeAt' = wokeAt]_vars

C2_Witness ==
  /\ outcome = "returned"
  /\ Len(invokedAt) = 3
  /\ Len(wokeAt) = 2
  /\ result = "V2"

\* The delay the specification gives for the retry after failed invocation k.
SpecDelay(k) ==
  LET exp == baseDelay * 2^(k - 1)
  IN IF exp <= maxDelay THEN exp ELSE maxDelay

\* C3: the delay waited between failed invocation k and invocation k + 1 is
\* min(baseDelay * 2^(k-1), maxDelay), without jitter: the timer is set for exactly
\* that long after the failure; and with maxRetries = 3, baseDelay = 1000, maxDelay =
\* 10000 an always-failing operation sees the delays 1000, 2000, 4000 in that order.
C3_DelayFormula ==
  /\ \A k \in 1..Len(delays) : delays[k] = SpecDelay(k)
  /\ pc = "sleeping" => timerDue = Last(failures).at + SpecDelay(Len(failures))
  /\ (maxRetries = 3 /\ baseDelay = 1000 /\ maxDelay = 10000 /\ outcome = "thrown")
       => delays = << 1000, 2000, 4000 >> /\ Len(invokedAt) = 4

C3_Witness ==
  /\ maxRetries = 3 /\ baseDelay = 1000 /\ maxDelay = 10000
  /\ outcome = "thrown"
  /\ delays = << 1000, 2000, 4000 >>
  /\ Len(wokeAt) = 3

\* C4: when retryWithBackoff gives up, the caller receives exactly the Error object
\* the final, (maxRetries + 1)-th invocation rejected with, and until then no error
\* of any invocation has reached the caller.
C4_FinalErrorUnchanged ==
  /\ outcome = "thrown" =>
       /\ Len(failures) = maxRetries + 1
       /\ thrown = Last(failures).error
       /\ thrown \in Errors
  /\ outcome # "thrown" => thrown = Undefined

C4_Witness ==
  /\ outcome = "thrown"
  /\ Len(failures) >= 2
  /\ failures[1].error # Last(failures).error
  /\ thrown = Last(failures).error

\* The two states of the retry policy.
Attempting ==
  pc \in {"loop", "awaitFn", "sleeping"}

Done ==
  pc = "done"

\* The steps the state machine allows: a further invocation of fn (Attempting ->
\* Attempting) follows a failed invocation with a retry left, after the timer of its
\* wait has fired; Done is entered by a successful invocation, or by a failed one with
\* no retry left; nothing leaves Done.
C5_Transition ==
  /\ ~Done
  /\ Len(invokedAt') = Len(invokedAt) + 1 /\ Len(invokedAt) >= 1 =>
       /\ Len(failures) = Len(invokedAt)
       /\ Len(invokedAt) <= maxRetries
       /\ Len(wokeAt) = Len(invokedAt)
  /\ Done' =>
       /\ Attempting
       /\ \/ outcome' = "returned" /\ Len(resolved') = 1 /\ Len(resolved) = 0
          \/ /\ outcome' = "thrown"
             /\ Len(failures') = Len(invokedAt')
             /\ Len(invokedAt') = maxRetries + 1
  /\ Attempting' => Attempting \/ pc = "idle"

\* C5: provided every invocation of fn settles and every timer fires, every call of
\* retryWithBackoff reaches Done, as a success or as a failure, and takes only the
\* steps of the state machine on its way.
C5_Terminates ==
  /\ (pc # "idle") ~> (Done /\ outcome \in {"returned", "thrown"})
  /\ [](Done <=> outcome # "pending")
  /\ [][C5_Transition]_vars

C5_Witness ==
  /\ Done
  /\ outcome = "thrown"
  /\ entry = "retryDatabaseOperation"
  /\ Len(wokeAt) = 5

\* C6: invocation k + 1 of fn starts only after invocation k was seen to fail and
\* the whole delay computed for k has passed since that failure; at most one
\* invocation is in flight; and no delay is waited after the final failed invocation
\* or after a success: the call ends at the time of its last invocation's outcome.
C6_SequentialAttempts ==
  /\ \A k \in 1..(Len(invokedAt) - 1) :
       /\ Len(failures) >= k /\ Len(delays) >= k /\ Len(wokeAt) >= k
       /\ invokedAt[k] <= failures[k].at
       /\ failures[k].at + delays[k] <= wokeAt[k]
       /\ wokeAt[k] <= invokedAt[k + 1]
  /\ Len(invokedAt) - (Len(failures) + Len(resolved)) = (IF pc = "awaitFn" THEN 1 ELSE 0)
  /\ Done =>
       /\ Len(delays) = Len(invokedAt) - 1
       /\ Len(wokeAt) = Len(delays)
       /\ outcome = "thrown" => now = Last(failures).at
       /\ outcome = "returned" => now = resolved[1].at

C6_Witness ==
  /\ Done
  /\ outcome = "thrown"
  /\ Len(invokedAt) = 3
  /\ invokedAt[1] < failures[1].at
  /\ invokedAt[2] > failures[1].at + delays[1]
  /\ invokedAt[3] = failures[2].at + delays[2]

LogKinds(kinds) ==
  Cardinality({ i \in DOMAIN log : log[i].kind \in kinds })

\* C7 as stated: every call logs one 'failed, retrying' event per delay waited and
\* exactly one terminal event, also when the first invocation succeeds.
C7_OneTerminalEventAlways ==
  Done => /\ LogKinds({"failed"}) = Len(wokeAt)
          /\ LogKinds({"succeeded", "exhausted"}) = 1

\* C7, amended: one 'failed' warning, followed by its 'retrying' line, is logged
\* at the start of each retry wait; a call that ends after a retry or by exhaustion
\* logs exactly one terminal event, last, 'succeeded' or 'exhausted' as it ended; a
\* call whose first invocation succeeds logs nothing.
C7_EventsPerOutcome ==
  /\ LogKinds({"failed"}) = Len(delays)
  /\ LogKinds({"retrying"}) = Len(delays)
  /\ \A i \in DOMAIN log :
       log[i].kind = "failed" =>
         /\ i < Len(log)
         /\ log[i + 1].kind = "retrying"
         /\ log[i + 1].delay = delays[log[i].attempt]
         /\ log[i].message = failures[log[i].attempt].error.message
  /\ pc = "sleeping" => Last(log).kind = "retrying" /\ Last(log).attempt = attempt
  /\ Done =>
       /\ LogKinds({"failed"}) = Len(wokeAt)
       /\ IF outcome = "returned" /\ Len(invokedAt) = 1
            THEN log = << >>
            ELSE /\ LogKinds({"succeeded", "exhausted"}) = 1
                 /\ Last(log).kind = (IF outcome = "returned" THEN "succeeded" ELSE "exhausted")
                 /\ Last(log).attempt = Len(invokedAt)

C7_Witness ==
  /\ Done
  /\ outcome = "returned"
  /\ Len(invokedAt) = 1
  /\ log = << >>

C9_DatabasePreset ==
  entry = "retryDatabaseOperation" =>
    /\ maxRetries = 5 /\ baseDelay = 1000 /\ maxDelay = 30000
    /\ Len(invokedAt) <= 6
    /\ \A k \in 1..Len(delays) : delays[k] = 1000 * 2^(k - 1) /\ delays[k] < 30000
    /\ outcome = "thrown" =>
         /\ Len(invokedAt) = 6
         /\ AlwaysFailed
         /\ delays = << 1000, 2000, 4000, 8000, 16000 >>
         /\ Len(wokeAt) = 5

C9_Witness ==
  /\ entry = "retryDatabaseOperation"
  /\ outcome = "thrown"
  /\ Len(invokedAt) = 6
  /\ delays = << 1000, 2000, 4000, 8000, 16000 >>

\* C10: when maxDelay is smaller than baseDelay, every delay, from the first retry
\* on, is maxDelay.
C10_CapBelowBase ==
  maxDelay < baseDelay =>
    /\ \A k \in 1..Len(delays) : delays[k] = maxDelay
    /\ pc = "sleeping" => timerDue = Last(failures).at + maxDelay

C10_Witness ==
  /\ baseDelay = 5000
  /\ maxDelay = 2000
  /\ delays = << 2000, 2000, 2000 >>
  /\ Len(wokeAt) = 3

\* ---------------------------------------------------------- testConnection

ConnectTimeoutMs == 30000
QueryTimeoutMs == 15000

DbEvent(ev, at) ==
  [attempt |-> attempt, ev |-> ev, at |-> at]

\* The retry state a step of the operation leaves alone while fn is awaited.
retryVarsButNow ==
  << pc, entry, maxRetries, baseDelay, maxDelay, attempt, lastError, timerDue,
     outcome, result, thrown, invokedAt, failures, resolved, delays, wokeAt, log >>

\* testConnection() calls retryDatabaseOperation with its operation.
TestConnection ==
  /\ RetryDatabaseOperation
  /\ UNCHANGED dbVars

\* The loop test of the retry; when it invokes the operation, the operation runs to
\* its first await: prisma.$connect() is called, the 30 s timer is set and the race
\* of the two is awaited.
DbLoopTest ==
  /\ LoopTest
  /\ IF pc' = "awaitFn"
       THEN /\ dbPc' = "connecting"
            /\ pendingCalls' = pendingCalls \cup {[attempt |-> attempt, call |-> "connect"]}
            /\ dbTrace' = Append(dbTrace, DbEvent("connect", now))
       ELSE UNCHANGED dbVars

\* $connect() resolves d ms after it was called, before the timeout: the race is
\* won, and the operation calls $queryRaw, sets the 15 s timer and awaits their race.
ConnectResolves(d) ==
  /\ pc = "awaitFn" /\ dbPc = "connecting"
  /\ d < ConnectTimeoutMs
  /\ now' = now + d
  /\ dbPc' = "querying"
  /\ pendingCalls' = (pendingCalls \ {[attempt |-> attempt, call |-> "connect"]})
                       \cup {[attempt |-> attempt, call |-> "query"]}
  /\ dbTrace' = dbTrace \o << DbEvent("connected", now'), DbEvent("query", now') >>
  /\ UNCHANGED retryVarsButNow

\* $connect() rejects before the timeout: the operation rejects with its error.
ConnectRejects(d) ==
  /\ dbPc = "connecting"
  /\ d < ConnectTimeoutMs
  /\ FnRejects(ConnectError, d)
  /\ dbPc' = "idle"
  /\ pendingCalls' = pendingCalls \ {[attempt |-> attempt, call |-> "connect"]}
  /\ dbTrace' = Append(dbTrace, DbEvent("connectFailed", now'))

\* Mutant: the connect timeout resolves its promise, so that the operation goes on
\* to the query.
ConnectTimesOutResolving ==
  /\ pc = "awaitFn" /\ dbPc = "connecting"
  /\ now' = now + ConnectTimeoutMs
  /\ dbPc' = "querying"
  /\ pendingCalls' = pendingCalls \cup {[attempt |-> attempt, call |-> "query"]}
  /\ dbTrace' = dbTrace \o << DbEvent("connectTimeout", now'), DbEvent("query", now') >>
  /\ UNCHANGED retryVarsButNow

\* The 30 s timer fires first: the race, and with it the operation, rejects with the
\* timeout error.  Nothing cancels $connect(): its promise stays pending.
ConnectTimesOut ==
  /\ dbPc = "connecting"
  /\ FnRejects(ConnectTimeoutError, ConnectTimeoutMs)
  /\ dbPc' = "idle"
  /\ UNCHANGED pendingCalls
  /\ dbTrace' = Append(dbTrace, DbEvent("connectTimeout", now'))

\* $queryRaw resolves before its timeout: the operation returns (undefined).
QueryResolves(d) ==
  /\ dbPc = "querying"
  /\ d < QueryTimeoutMs
  /\ FnResolves(NoValue, d)
  /\ dbPc' = "idle"
  /\ pendingCalls' = pendingCalls \ {[attempt |-> attempt, call |-> "query"]}
  /\ dbTrace' = Append(dbTrace, DbEvent("queryOk", now'))

QueryRejects(d) ==
  /\ dbPc = "querying"
  /\ d < QueryTimeoutMs
  /\ FnRejects(QueryError, d)
  /\ dbPc' = "idle"
  /\ pendingCalls' = pendingCalls \ {[attempt |-> attempt, call |-> "query"]}
  /\ dbTrace' = Append(dbTrace, DbEvent("queryFailed", now'))

\* The 15 s timer fires first; $queryRaw stays pending.
QueryTimesOut ==
  /\ dbPc = "querying"
  /\ FnRejects(QueryTimeoutError, QueryTimeoutMs)
  /\ dbPc' = "idle"
  /\ UNCHANGED pendingCalls
  /\ dbTrace' = Append(dbTrace, DbEvent("queryTimeout", now'))

\* The call the operation is awaiting now, if any.
AwaitedCall ==
  IF dbPc = "idle" THEN {}
  ELSE {[attempt |-> attempt, call |-> IF dbPc = "connecting" THEN "connect" ELSE "query"]}

\* A Prisma call whose race was lost to the timeout settles at last; nobody awaits it.
AbandonedCallSettles(c) ==
  /\ c \in pendingCalls \ AwaitedCall
  /\ pendingCalls' = pendingCalls \ {c}
  /\ UNCHANGED << vars, dbPc, dbTrace >>

DbTimerFires ==
  /\ TimerFires(0)
  /\ UNCHANGED dbVars

\* The rest of the application stands still while testConnection runs.
notDbVars == << storeVars, viewVars, digestVars, httpVars >>

NextDb ==
  \/ UNCHANGED notDbVars /\ TestConnection
  \/ UNCHANGED notDbVars /\ DbLoopTest
  \/ UNCHANGED notDbVars /\ \E d \in PrismaDurations : ConnectResolves(d)
  \/ UNCHANGED notDbVars /\ \E d \in PrismaDurations : ConnectRejects(d)
  \/ UNCHANGED notDbVars /\ ConnectTimesOut
  \/ UNCHANGED notDbVars /\ \E d \in PrismaDurations : QueryResolves(d)
  \/ UNCHANGED notDbVars /\ \E d \in PrismaDurations : QueryRejects(d)
  \/ UNCHANGED notDbVars /\ QueryTimesOut
  \/ UNCHANGED notDbVars /\ \E c \in pendingCalls : AbandonedCallSettles(c)
  \/ UNCHANGED notDbVars /\ DbTimerFires

SpecDb == InitAll /\ [][NextDb]_allVars

DbEvents(evs) ==
  { i \in DOMAIN dbTrace : dbTrace[i].ev \in evs }

\* C11: in every attempt of testConnection the liveness query is issued only after
\* that attempt's $connect resolved, less than 30 s after it was called; testConnection
\* succeeds at once when an attempt's query resolves, and after no other attempt; and it
\* fails only after 6 attempts, each ended by a rejected or timed-out connect or query.
C11_ConnectThenQuery ==
  /\ entry # "none" => maxRetries = 5 /\ baseDelay = 1000 /\ maxDelay = 30000
  /\ \A i \in DbEvents({"query"}) :
       /\ i >= 3
       /\ dbTrace[i - 1].ev = "connected" /\ dbTrace[i - 1].attempt = dbTrace[i].attempt
       /\ dbTrace[i - 2].ev = "connect" /\ dbTrace[i - 2].attempt = dbTrace[i].attempt
       /\ dbTrace[i - 1].at - dbTrace[i - 2].at < 30000
       /\ dbTrace[i - 1].at <= dbTrace[i].at
  /\ DbEvents({"queryOk"}) # {} <=> outcome = "returned"
  /\ outcome = "returned" =>
       /\ Last(dbTrace).ev = "queryOk" /\ Last(dbTrace).at = now
       /\ Last(dbTrace).attempt = Len(invokedAt)
       /\ Cardinality(DbEvents({"queryOk"})) = 1
       /\ Done
  /\ outcome = "thrown" =>
       /\ Len(invokedAt) = 6
       /\ Cardinality(DbEvents({"connect"})) = 6
       /\ Cardinality(DbEvents({"connectFailed", "connectTimeout", "queryFailed",
                                 "queryTimeout"})) = 6
       /\ \A k \in 1..6 :
            \E i \in DbEvents({"connectFailed", "connectTimeout", "queryFailed",
                               "queryTimeout"}) : dbTrace[i].attempt = k

C11_Witness ==
  /\ outcome = "returned"
  /\ Len(invokedAt) = 3
  /\ \E i \in DbEvents({"connectTimeout"}) : dbTrace[i].attempt = 1
  /\ \E i \in DbEvents({"queryTimeout"}) : dbTrace[i].attempt = 2

\* C12: during testConnection a new attempt's $connect is never started while a
\* Prisma call of an earlier attempt is still pending: every pending call belongs to
\* the latest attempt, and at most one call is pending.
C12_OneAttemptInFlight ==
  /\ \A c \in pendingCalls : c.attempt = Len(invokedAt)
  /\ Cardinality(pendingCalls) <= 1

\* ------------------------------------------------- the store and its handlers

MaxStarted == 3

\* The Slack user who submits the modals; the project leads offered are U1 and U2.
Submitters == {"U1"}
Statuses == {"CANCELLED"}
Deadlines == {"2025-01-31"}

\* a || b of JavaScript, on the values the handlers apply it to.
JsOr(a, b) ==
  IF a \in {NoValue, Null, ""} THEN b ELSE a

\* What Slack knows of a user: users.info, and the user of an interaction body.
SlackUser(slackId) ==
  IF slackId = "U1"
    THEN [name |-> "ann", real_name |-> "Ann Lee", email |-> "ann@example.com"]
    ELSE [name |-> "bob", real_name |-> NoValue, email |-> NoValue]

\* @default(cuid()): the n-th id generated for a table.
Cuid(table, n) ==
  [users |-> << "u1", "u2", "u3", "u4", "u5" >>,
   projects |-> << "p1", "p2", "p3", "p4", "p5" >>,
   updates |-> << "n1", "n2", "n3", "n4", "n5" >>][table][n]

\* The slot a new handler invocation runs in: the first free one.
FreeSlot(p) ==
  /\ h[p].pc \in {"idle", "done"}
  /\ \A q \in Procs : q < p => h[q].pc \notin {"idle", "done"}

\* prisma.<model>.findUnique: the record, in a set, or nothing.
FindUnique(table, id) ==
  { r \in table : r.id = id }

FindUserBySlackId(slackUserId) ==
  { u \in users : u.slackUserId = slackUserId }

\* Mutant: the column slack_user_id carries no unique index.
UniqueViolationNever(slackUserId) ==
  FALSE

\* slackUserId String @unique: an insert of a second row with the value is refused.
UniqueViolation(slackUserId) ==
  FindUserBySlackId(slackUserId) # {}

\* The handler invocation of slot p moves on.
Goto(p, to) ==
  h' = [h EXCEPT ![p].pc = to]

\* An await of slot p rejects: control passes to the handler's catch block.
Throw(p, message) ==
  h' = [h EXCEPT ![p].pc = "catch", ![p].error = message]

\* The Slack id findOrCreateUser is called with, and the userData.
Target(p) ==
  IF h[p].who = "creator" THEN h[p].slackId ELSE h[p].newAssignee

UserData(p) ==
  IF h[p].who = "creator"
    THEN [name |-> h[p].userName, email |-> NoValue, role |-> NoValue]
    ELSE [name |-> JsOr(SlackUser(Target(p)).real_name, SlackUser(Target(p)).name),
          email |-> SlackUser(Target(p)).email, role |-> NoValue]

\* Where the handler goes on when findOrCreateUser has returned user id.
Returned(p, id) ==
  IF h[p].who = "creator"
    THEN [h[p] EXCEPT !.user = id,
                      !.pc = IF h[p].op = "update" THEN "getProject" ELSE "leadNew"]
    ELSE [h[p] EXCEPT !.assigneeDbId = id,
                      !.assigneeChanged = (h[p].op = "update" /\ h[p].projectAssignedTo # id),
                      !.pc = IF h[p].op = "update" THEN "write" ELSE "createProject"]

\* findOrCreateUser, first await: prisma.user.findUnique({ where: { slackUserId } }).
FindUser(p) ==
  /\ h[p].pc = "findUser"
  /\ IF FindUserBySlackId(Target(p)) = {}
       THEN Goto(p, "createUser")
       ELSE \E u \in FindUserBySlackId(Target(p)) : h' = [h EXCEPT ![p] = Returned(p, u.id)]
  /\ UNCHANGED << users, projects, updates, nextId, clock, started, resetPc, created >>

\* findOrCreateUser, second await: prisma.user.create; its rejection is rethrown.
CreateUser(p) ==
  /\ h[p].pc = "createUser"
  /\ IF UniqueViolation(Target(p))
       THEN /\ Throw(p, "Unique constraint failed on the fields: (slack_user_id)")
            /\ UNCHANGED << users, nextId, created >>
       ELSE /\ nextId' = [nextId EXCEPT !["users"] = @ + 1]
            /\ users' = users \cup
                 {[id |-> Cuid("users", nextId'.users), slackUserId |-> Target(p),
                   name |-> JsOr(UserData(p).name, "Unknown User"),
                   email |-> JsOr(UserData(p).email, Null),
                   role |-> JsOr(UserData(p).role, "member")]}
            /\ created' = created \cup {[id |-> Cuid("users", nextId'.users), table |-> "users"]}
            /\ h' = [h EXCEPT ![p] = Returned(p, Cuid("users", nextId'.users))]
  /\ UNCHANGED << projects, updates, clock, started, resetPc >>

\* A JSON value of the completion, as far as the code looks into it.
JsonString(text) == [type |-> "string", text |-> text]
JsonArray(items) == [type |-> "array", items |-> items]
JsonUndefined == [type |-> "undefined"]

\* What openai.chat.completions.create can come back with: a rejection, a message
\* that is no JSON, and JSON objects: the one asked for, one with a key missing and
\* one whose lists are sentences.
Completions ==
  { [settled |-> "rejected"],
    [settled |-> "resolved", json |-> FALSE],
    [settled |-> "resolved", json |-> TRUE,
     value |-> [analysis |-> JsonString("On track"),
                risks |-> JsonArray(<< "Scope creep" >>),
                opportunities |-> JsonArray(<< >>)]],
    [settled |-> "resolved", json |-> TRUE,
     value |-> [analysis |-> JsonString("On track")]],
    [settled |-> "resolved", json |-> TRUE,
     value |-> [analysis |-> JsonString("On track"),
                risks |-> JsonString("None identified"),
                opportunities |-> JsonString("None identified")]] }

\* result.key of JavaScript.
Member(value, key) ==
  IF key \in DOMAIN value THEN value[key] ELSE JsonUndefined

\* Reading .length of it does not throw.
HasLength(value) ==
  value.type \in {"string", "array"}

FallbackAnalysis ==
  [analysis |-> JsonString("Unable to generate AI analysis at this time."),
   risks |-> JsonArray(<< >>),
   opportunities |-> JsonArray(<< >>)]

\* analyzeProjectUpdate: the parsed completion, or the fallback when the call
\* rejected, JSON.parse threw or the logging of the three lengths threw.
AnalyzeProjectUpdate(completion) ==
  IF /\ completion.settled = "resolved"
     /\ completion.json
     /\ \A key \in {"analysis", "risks", "opportunities"} :
          HasLength(Member(completion.value, key))
    THEN completion.value
    ELSE FallbackAnalysis

\* Prisma's validation of the data of projectUpdate.create: aiAnalysis String?,
\* risksIdentified String[], opportunitiesNoted String[].
ValidUpdateData(ai) ==
  /\ ai.analysis.type = "string"
  /\ ai.risks.type = "array"
  /\ ai.opportunities.type = "array"

\* Mutant: only a missing selection is refused.
InvalidProjectMissingOnly(projectId) ==
  projectId = NoValue

\* if (!projectId || projectId === 'no_projects').
InvalidProject(projectId) ==
  projectId \in {NoValue, "no_projects"}

\* Mutant: the handler goes on without ack().
AckPlainOmitted ==
  "none"

\* await ack(), after the validation.
AckPlain ==
  "ok"

\* The inputs of a submission of the project_update_modal; the handler runs up to
\* its ack.
SubmitUpdate(p, slackId, userName, projectId, newStatus, newAssignee) ==
  /\ started < MaxStarted
  /\ FreeSlot(p)
  /\ started' = started + 1
  /\ h' = [h EXCEPT ![p] =
            [IdleHandler EXCEPT
               !.op = "update", !.slackId = slackId, !.userName = userName,
               !.projectId = projectId, !.content = "Shipped the beta",
               !.newStatus = newStatus, !.newAssignee = newAssignee,
               !.ack = IF InvalidProject(projectId) THEN "errors" ELSE AckPlain,
               !.ackErrors = IF InvalidProject(projectId) THEN "project_select" ELSE Null,
               !.pc = IF InvalidProject(projectId) THEN "done" ELSE "findUser"]]
  /\ UNCHANGED << users, projects, updates, nextId, clock, resetPc, created >>

\* const project = await projectService.getProject(projectId), in the handler.
GetProject(p) ==
  /\ h[p].pc = "getProject"
  /\ IF FindUnique(projects, h[p].projectId) = {}
       THEN Throw(p, "Project not found")
       ELSE \E r \in FindUnique(projects, h[p].projectId) :
              h' = [h EXCEPT ![p].project = r.id, ![p].projectStatus = r.status,
                             ![p].projectAssignedTo = r.assignedTo,
                             ![p].pc = "addGetProject"]
  /\ UNCHANGED << users, projects, updates, nextId, clock, started, resetPc, created >>

\* addProjectUpdate, first await: getProject again.
AddGetProject(p) ==
  /\ h[p].pc = "addGetProject"
  /\ IF FindUnique(projects, h[p].projectId) = {}
       THEN Throw(p, "Project not found")
       ELSE Goto(p, "analyze")
  /\ UNCHANGED << users, projects, updates, nextId, clock, started, resetPc, created >>

\* addProjectUpdate, second await: openaiService.analyzeProjectUpdate.
Analyze(p, completion) ==
  /\ h[p].pc = "analyze"
  /\ h' = [h EXCEPT ![p].ai = AnalyzeProjectUpdate(completion), ![p].pc = "createUpdate"]
  /\ UNCHANGED << users, projects, updates, nextId, clock, started, resetPc, created >>

\* addProjectUpdate, third await: prisma.projectUpdate.create.  It rejects when the
\* data is not of the column types or a relation's row is gone.
CreateUpdate(p) ==
  /\ h[p].pc = "createUpdate"
  /\ IF ~ ValidUpdateData(h[p].ai)
       THEN /\ Throw(p, "Invalid value provided. Expected String[], provided String.")
            /\ UNCHANGED << updates, nextId, created >>
       ELSE IF FindUnique(projects, h[p].projectId) = {} \/ FindUnique(users, h[p].user) = {}
       THEN /\ Throw(p, "Foreign key constraint failed")
            /\ UNCHANGED << updates, nextId, created >>
       ELSE /\ nextId' = [nextId EXCEPT !["updates"] = @ + 1]
            /\ updates' = updates \cup
                 {[id |-> Cuid("updates", nextId'.updates), projectId |-> h[p].projectId, userId |-> h[p].user,
                   content |-> h[p].content, aiAnalysis |-> h[p].ai.analysis.text,
                   risksIdentified |-> h[p].ai.risks.items,
                   opportunitiesNoted |-> h[p].ai.opportunities.items]}
            /\ created' = created \cup {[id |-> Cuid("updates", nextId'.updates), table |-> "updates"]}
            /\ h' = [h EXCEPT ![p].update = Cuid("updates", nextId'.updates), ![p].pc = "touch"]
  /\ UNCHANGED << users, projects, clock, started, resetPc >>

\* An object without keys.
EmptyObject == [key \in {} |-> Null]

\* { ...a, ...b }: the keys of both, b's value where both have the key.
Spread(a, b) ==
  [key \in DOMAIN a \cup DOMAIN b |-> IF key \in DOMAIN b THEN b[key] ELSE a[key]]

\* The row after prisma.<model>.update with data: the columns data names are set.
Merge(row, data) ==
  [column \in DOMAIN row |-> IF column \in DOMAIN data THEN data[column] ELSE row[column]]

\* Mutant: a project whose status is set to CANCELLED is removed from the table.
ProjectsAfterUpdateDroppingCancelled(id, data) ==
  IF "status" \in DOMAIN data /\ data.status = "CANCELLED"
    THEN { r \in projects : r.id # id }
    ELSE { IF r.id = id THEN Merge(r, data) ELSE r : r \in projects }

\* The table projects after prisma.project.update({ where: { id }, data }).
ProjectsAfterUpdate(id, data) ==
  { IF r.id = id THEN Merge(r, data) ELSE r : r \in projects }

\* Mutant: updateProject passes deadline: null where the code passes undefined.
UpdateProjectDataNullDeadline(updateData, date) ==
  Spread(updateData,
         [deadline |-> IF "deadline" \in DOMAIN updateData THEN updateData.deadline ELSE Null,
          updatedAt |-> date])

\* The data updateProject hands to prisma.project.update: a key whose value is
\* undefined is no column to set.
UpdateProjectData(updateData, date) ==
  IF "deadline" \in DOMAIN updateData /\ updateData.deadline \notin {NoValue, Null, ""}
    THEN Spread(updateData, [deadline |-> updateData.deadline, updatedAt |-> date])
    ELSE Spread([key \in DOMAIN updateData \ {"deadline"} |-> updateData[key]],
                [updatedAt |-> date])

\* ProjectService.deleteProject: the row and, by onDelete: Cascade, its updates go.
\* No handler calls it.
DeleteProject(id) ==
  [projects |-> { r \in projects : r.id # id },
   updates |-> { u \in updates : u.projectId # id }]

\* addProjectUpdate, fourth await: prisma.project.update of updatedAt.
Touch(p) ==
  /\ h[p].pc = "touch"
  /\ IF FindUnique(projects, h[p].projectId) = {}
       THEN /\ Throw(p, "Record to update not found")
            /\ UNCHANGED << projects, clock >>
       ELSE /\ clock' = clock + 1
            /\ projects' = ProjectsAfterUpdate(h[p].projectId, [updatedAt |-> clock'])
            /\ Goto(p, "lead")
  /\ UNCHANGED << users, updates, nextId, started, resetPc, created >>

\* The project-lead branch of the handler; info tells whether slackService.getUserInfo
\* returns the user's info or null.
Lead(p, info) ==
  /\ h[p].pc = "lead"
  /\ h' = [h EXCEPT ![p] =
       IF h[p].newAssignee = "no_change"
         THEN [h[p] EXCEPT !.assigneeDbId = h[p].projectAssignedTo, !.pc = "write"]
       ELSE IF h[p].newAssignee = "unassigned"
         THEN [h[p] EXCEPT !.assigneeDbId = Null,
                           !.assigneeChanged = (h[p].projectAssignedTo # Null),
                           !.pc = "write"]
       ELSE IF info
         THEN [h[p] EXCEPT !.assigneeDbId = h[p].projectAssignedTo,
                           !.who = "assignee", !.pc = "findUser"]
         ELSE [h[p] EXCEPT !.assigneeDbId = h[p].projectAssignedTo, !.pc = "write"]]
  /\ UNCHANGED << users, projects, updates, nextId, clock, started, resetPc, created >>

\* const updateData = {}; the two ifs that fill it.
UpdateData(p) ==
  Spread(IF h[p].newStatus # "no_change" /\ h[p].newStatus # h[p].projectStatus
           THEN [status |-> h[p].newStatus] ELSE EmptyObject,
         IF h[p].assigneeChanged
           THEN [assignedTo |-> h[p].assigneeDbId] ELSE EmptyObject)

\* if (Object.keys(updateData).length > 0) await projectService.updateProject(...).
Write(p) ==
  /\ h[p].pc = "write"
  /\ IF DOMAIN UpdateData(p) = {}
       THEN /\ Goto(p, "confirm")
            /\ UNCHANGED << projects, clock >>
       ELSE IF FindUnique(projects, h[p].projectId) = {}
       THEN /\ Throw(p, "Record to update not found")
            /\ UNCHANGED << projects, clock >>
       ELSE IF /\ "assignedTo" \in DOMAIN UpdateData(p)
               /\ UpdateData(p).assignedTo # Null
               /\ FindUnique(users, UpdateData(p).assignedTo) = {}
       THEN /\ Throw(p, "Foreign key constraint failed")
            /\ UNCHANGED << projects, clock >>
       ELSE /\ clock' = clock + 1
            /\ projects' = ProjectsAfterUpdate(h[p].projectId,
                                                UpdateProjectData(UpdateData(p), clock'))
            /\ Goto(p, "confirm")
  /\ UNCHANGED << users, updates, nextId, started, resetPc, created >>

\* The confirmation DM; posted tells whether chat.postMessage resolves.
Confirm(p, posted) ==
  /\ h[p].pc = "confirm"
  /\ IF posted
       THEN h' = [h EXCEPT ![p].msg = "confirmation", ![p].pc = "done"]
       ELSE Throw(p, "An API error occurred")
  /\ UNCHANGED << users, projects, updates, nextId, clock, started, resetPc, created >>

\* The catch block: the error DM.  When that postMessage rejects too, the handler
\* rejects and Bolt's error handler logs it.
CatchBlock(p, posted) ==
  /\ h[p].pc = "catch"
  /\ h' = [h EXCEPT ![p].msg = IF posted THEN "error" ELSE h[p].msg, ![p].pc = "done"]
  /\ UNCHANGED << users, projects, updates, nextId, clock, started, resetPc, created >>

\* The inputs of a submission of the project_new_modal; clientName "" is the choice
\* 'other' with nothing typed.
SubmitNew(p, slackId, userName, clientName, assignedTo, deadline) ==
  /\ started < MaxStarted
  /\ FreeSlot(p)
  /\ started' = started + 1
  /\ h' = [h EXCEPT ![p] =
            [IdleHandler EXCEPT
               !.op = "new", !.slackId = slackId, !.userName = userName,
               !.clientName = clientName, !.newStatus = "PLANNING",
               !.newAssignee = assignedTo, !.deadline = deadline,
               !.ack = IF clientName = "" THEN "errors" ELSE "ok",
               !.ackErrors = IF clientName = "" THEN "client_name_other" ELSE Null,
               !.pc = IF clientName = "" THEN "done" ELSE "findUser"]]
  /\ UNCHANGED << users, projects, updates, nextId, clock, resetPc, created >>

\* The project-lead branch of the project_new_modal handler.
LeadNew(p, info) ==
  /\ h[p].pc = "leadNew"
  /\ h' = [h EXCEPT ![p] =
       IF h[p].newAssignee # "unassigned" /\ info
         THEN [h[p] EXCEPT !.who = "assignee", !.pc = "findUser"]
         ELSE [h[p] EXCEPT !.pc = "createProject"]]
  /\ UNCHANGED << users, projects, updates, nextId, clock, started, resetPc, created >>

\* projectService.createProject: prisma.project.create.
CreateProject(p) ==
  /\ h[p].pc = "createProject"
  /\ IF h[p].assigneeDbId # Null /\ FindUnique(users, h[p].assigneeDbId) = {}
       THEN /\ Throw(p, "Foreign key constraint failed")
            /\ UNCHANGED << projects, nextId, clock, created >>
       ELSE /\ nextId' = [nextId EXCEPT !["projects"] = @ + 1]
            /\ clock' = clock + 1
            /\ projects' = projects \cup
                 {[id |-> Cuid("projects", nextId'.projects), name |-> "Website", clientName |-> h[p].clientName,
                   status |-> JsOr(h[p].newStatus, "PLANNING"),
                   assignedTo |-> JsOr(h[p].assigneeDbId, Null),
                   deadline |-> h[p].deadline, updatedAt |-> clock']}
            /\ created' = created \cup {[id |-> Cuid("projects", nextId'.projects), table |-> "projects"]}
            /\ h' = [h EXCEPT ![p].project = Cuid("projects", nextId'.projects), ![p].pc = "confirm"]
  /\ UNCHANGED << users, updates, started, resetPc >>

\* scripts/reset-data.js is run.
ResetStart ==
  /\ started < MaxStarted
  /\ resetPc = "idle"
  /\ resetPc' = "updates"
  /\ started' = started + 1
  /\ UNCHANGED << users, projects, updates, nextId, clock, h, created >>

\* prisma.projectUpdate.deleteMany({}).
ResetUpdates ==
  /\ resetPc = "updates"
  /\ updates' = {}
  /\ resetPc' = "projects"
  /\ UNCHANGED << users, projects, nextId, clock, h, started, created >>

\* prisma.project.deleteMany({}); the updates of the projects go with them.
ResetProjects ==
  /\ resetPc = "projects"
  /\ projects' = {}
  /\ updates' = {}
  /\ resetPc' = "users"
  /\ UNCHANGED << users, nextId, clock, h, started, created >>

\* prisma.user.deleteMany({}): refused while an update refers to a user; a project's
\* optional assignee is set to null.
ResetUsers ==
  /\ resetPc = "users"
  /\ IF updates # {}
       THEN /\ resetPc' = "failed"
            /\ UNCHANGED << users, projects >>
       ELSE /\ resetPc' = "done"
            /\ users' = {}
            /\ projects' = { [r EXCEPT !.assignedTo = Null] : r \in projects }
  /\ UNCHANGED << updates, nextId, clock, h, started, created >>

\* The bodies Slack sends.
UpdateProjectIds ==
  {NoValue, "no_projects"} \cup { c.id : c \in { x \in created : x.table = "projects" } }

notStoreVars == << vars, dbVars, viewVars, digestVars, httpVars >>

NextStore ==
  \/ UNCHANGED notStoreVars /\
       \E p \in Procs, slackId \in Submitters, projectId \in UpdateProjectIds,
          newStatus \in {"no_change"} \cup Statuses,
          newAssignee \in {"no_change", "unassigned", "U2"} :
         SubmitUpdate(p, slackId, SlackUser(slackId).name, projectId, newStatus, newAssignee)
  \/ UNCHANGED notStoreVars /\
       \E p \in Procs, slackId \in Submitters, clientName \in {"Acme", ""},
          assignedTo \in {"unassigned", "U1"}, deadline \in Deadlines :
         SubmitNew(p, slackId, SlackUser(slackId).name, clientName, assignedTo, deadline)
  \/ UNCHANGED notStoreVars /\ \E p \in Procs : FindUser(p)
  \/ UNCHANGED notStoreVars /\ \E p \in Procs : CreateUser(p)
  \/ UNCHANGED notStoreVars /\ \E p \in Procs : GetProject(p)
  \/ UNCHANGED notStoreVars /\ \E p \in Procs : AddGetProject(p)
  \/ UNCHANGED notStoreVars /\ \E p \in Procs, completion \in Completions : Analyze(p, completion)
  \/ UNCHANGED notStoreVars /\ \E p \in Procs : CreateUpdate(p)
  \/ UNCHANGED notStoreVars /\ \E p \in Procs : Touch(p)
  \/ UNCHANGED notStoreVars /\ \E p \in Procs, info \in BOOLEAN : Lead(p, info)
  \/ UNCHANGED notStoreVars /\ \E p \in Procs : Write(p)
  \/ UNCHANGED notStoreVars /\ \E p \in Procs, info \in BOOLEAN : LeadNew(p, info)
  \/ UNCHANGED notStoreVars /\ \E p \in Procs : CreateProject(p)
  \/ UNCHANGED notStoreVars /\ \E p \in Procs, posted \in BOOLEAN : Confirm(p, posted)
  \/ UNCHANGED notStoreVars /\ \E p \in Procs, posted \in BOOLEAN : CatchBlock(p, posted)
  \/ UNCHANGED notStoreVars /\ ResetStart
  \/ UNCHANGED notStoreVars /\ ResetUpdates
  \/ UNCHANGED notStoreVars /\ ResetProjects
  \/ UNCHANGED notStoreVars /\ ResetUsers

SpecStore == InitAll /\ [][NextStore]_allVars

\* c, an [id, table] of created, is a row of its table.
Exists(c) ==
  c.id \in { r.id : r \in (CASE c.table = "users" -> users
                              [] c.table = "projects" -> projects
                              [] OTHER -> updates) }

HandlersAtRest ==
  \A p \in Procs : h[p].pc \in {"idle", "done"}

\* C13: no bot operation deletes a User, Project or ProjectUpdate: as long as the
\* reset-data script was not run, every record a bot operation created is in its
\* table, and a record leaves its table only in a step of the reset-data script.
C13_NoRecordDeleted ==
  /\ [](resetPc = "idle" => \A c \in created : Exists(c))
  /\ [][(\E c \in created : Exists(c) /\ ~ Exists(c)') => resetPc' # resetPc]_allVars

C13_Witness ==
  /\ resetPc = "idle"
  /\ HandlersAtRest
  /\ started = 3
  /\ \E r \in projects : r.status = "CANCELLED"
  /\ updates # {} /\ users # {}
  /\ \A c \in created : Exists(c)

\* C14: a step of the bot changes no column of an existing User or ProjectUpdate,
\* and of an existing Project only status, assignedTo and updatedAt, and these only
\* in a step of a project_update_modal submission that selected this project.
C14_OnlyUpdateSubmissionChanges ==
  [][resetPc' = resetPc =>
       /\ \A u \in users : \A v \in users' : v.id = u.id => v = u
       /\ \A u \in updates : \A v \in updates' : v.id = u.id => v = u
       /\ \A r \in projects : \A t \in projects' :
            (t.id = r.id /\ t # r) =>
              /\ \A column \in DOMAIN r \ {"status", "assignedTo", "updatedAt"} :
                   t[column] = r[column]
              /\ \E p \in Procs :
                   h[p].op = "update" /\ h[p].projectId = r.id /\ h'[p] # h[p]]_allVars

C14_Witness ==
  /\ HandlersAtRest
  /\ \E r \in projects, t \in projects, u \in updates :
       /\ r.id # t.id /\ u.projectId = r.id
       /\ r.status = "CANCELLED" /\ r.assignedTo # Null /\ r.deadline = "2025-01-31"
       /\ t.status = "PLANNING" /\ t.assignedTo = Null
       /\ t.updatedAt < r.updatedAt

\* C15: the table users never holds two rows with the same slackUserId.
C15_UniqueSlackUserId ==
  \A u \in users, v \in users : u.slackUserId = v.slackUserId => u = v

\* Two invocations raced to create the same user: one's insert was refused.
C15_Witness ==
  /\ \E p \in Procs : h[p].error = "Unique constraint failed on the fields: (slack_user_id)"
  /\ Cardinality(users) = 2

\* C18: analyzeProjectUpdate returns the fallback whenever the completion call or the
\* parsing fails, and once addProjectUpdate has got its analysis for a project that
\* exists, the ProjectUpdate is stored.
C18_UpdateStoredWithOrWithoutAi ==
  /\ \A completion \in Completions :
       (completion.settled = "rejected" \/ ~ completion.json)
         => AnalyzeProjectUpdate(completion) = FallbackAnalysis
  /\ \A p \in Procs :
       (h[p].op = "update" /\ resetPc = "idle"
          /\ h[p].ai # IdleHandler.ai /\ h[p].pc # "createUpdate")
         => h[p].update # Null

\* --------------------------------------------- the client filter of the modal

\* Tables a database in use holds when the bot is started.
SampleProjects ==
  LET website == [id |-> "p1", name |-> "Website", clientName |-> "Acme",
                  status |-> "IN_PROGRESS", assignedTo |-> Null,
                  deadline |-> "2025-01-31", updatedAt |-> 1]
      portal == [id |-> "p2", name |-> "Portal", clientName |-> "Acme Labs",
                 status |-> "PLANNING", assignedTo |-> Null,
                 deadline |-> "2025-01-31", updatedAt |-> 2]
  IN  { {website}, {website, portal} }

\* clientName: { contains: needle, mode: 'insensitive' } on the client names used.
ContainsInsensitive(clientName, needle) ==
  \/ clientName = needle
  \/ clientName = "Acme Labs" /\ needle = "Acme"

\* status.replace('_', ' ').
StatusText(status) ==
  CASE status = "IN_PROGRESS" -> "IN PROGRESS"
    [] status = "ON_HOLD" -> "ON HOLD"
    [] OTHER -> status

\* orderBy: { updatedAt: 'desc' }.
RECURSIVE OrderByUpdatedAtDesc(_)
OrderByUpdatedAtDesc(rows) ==
  IF rows = {} THEN << >>
  ELSE LET first == CHOOSE r \in rows : \A t \in rows : t.updatedAt <= r.updatedAt
       IN  << first >> \o OrderByUpdatedAtDesc(rows \ {first})

\* getAllProjects(filters).
GetAllProjects(filters) ==
  OrderByUpdatedAtDesc(
    { r \in projects :
        "clientName" \in DOMAIN filters => ContainsInsensitive(r.clientName, filters.clientName) })

\* orderBy: { clientName: 'asc' } on the client names used.
UniqueClients ==
  LET names == { r.clientName : r \in projects }
  IN  (IF "Acme" \in names THEN << "Acme" >> ELSE << >>)
        \o (IF "Acme Labs" \in names THEN << "Acme Labs" >> ELSE << >>)

Option(text, value) ==
  [text |-> text, value |-> value]

MapOptions(rows) ==
  [i \in DOMAIN rows |-> Option(<< rows[i].name, StatusText(rows[i].status) >>, rows[i].id)]

\* Mutant: the placeholder option is not added to an empty list.
ProjectOptionsWithoutPlaceholder(rows) ==
  MapOptions(rows)

\* The options of the project dropdown the handler builds from the projects found.
ProjectOptions(rows) ==
  IF Len(MapOptions(rows)) = 0
    THEN << Option("No projects found for this client", "no_projects") >>
    ELSE MapOptions(rows)

ClientOptions ==
  LET named == [i \in DOMAIN UniqueClients |-> Option(UniqueClients[i], UniqueClients[i])]
      all == << Option("All Clients", "all_clients") >> \o named
  IN  IF Len(all) = 1 THEN all \o << Option("No clients found", "no_clients") >> ELSE all

\* The modal projectUpdateCommand opens.
UpdateModal ==
  [type |-> "modal", callback_id |-> "project_update_modal", title |-> "Update Project",
   submit |-> "Add Update", close |-> "Cancel",
   blocks |->
     << [block_id |-> "client_select", action_id |-> "client_filter_dropdown",
         placeholder |-> "Select a client to filter projects",
         options |-> ClientOptions, initial_option |-> ClientOptions[1]],
        [block_id |-> "project_select", action_id |-> "project_dropdown",
         placeholder |-> "Select a project to update",
         options |-> MapOptions(GetAllProjects(EmptyObject))],
        [block_id |-> "update_content", action_id |-> "content_input"],
        [block_id |-> "assigned_to", action_id |-> "assignee_select",
         initial_option |-> Option("Keep current project lead", "no_change")],
        [block_id |-> "status_update", action_id |-> "status_select",
         initial_option |-> Option("Keep current status", "no_change")] >>]

\* /project-update: the modal is opened when there is a project to update.
OpenModal ==
  /\ cf.pc \in {"idle", "done"}
  /\ projects # {}
  /\ view' = UpdateModal
  /\ UNCHANGED cf

\* The user picks a client in the client filter: Slack sends the block action with
\* the view as it is shown, and the handler acknowledges it.
SelectClient(selectedClient) ==
  /\ view.type = "modal"
  /\ cf.pc \in {"idle", "done"}
  /\ \E i \in DOMAIN view.blocks[1].options : view.blocks[1].options[i].value = selectedClient
  /\ cf' = [pc |-> "getProjects", selectedClient |-> selectedClient, currentView |-> view,
            updatedView |-> NoView]
  /\ UNCHANGED view

\* The projects of the selected client.
FilteredProjects(selectedClient) ==
  IF selectedClient = "all_clients" THEN GetAllProjects(EmptyObject)
  ELSE IF selectedClient = "no_clients" THEN << >>
  ELSE GetAllProjects([clientName |-> selectedClient])

\* updatedBlocks = [...currentView.blocks]; updatedBlocks[1] = the rebuilt dropdown.
UpdatedBlocks(currentView, options) ==
  [currentView.blocks EXCEPT ![2] =
     [block_id |-> "project_select", action_id |-> "project_dropdown",
      placeholder |-> IF Len(options) > 0 /\ options[1].value # "no_projects"
                        THEN "Select a project to update"
                        ELSE "No projects available",
      options |-> options]]

\* The handler reads the projects and builds updatedView.
FilterProjects ==
  /\ cf.pc = "getProjects"
  /\ cf' = [cf EXCEPT
       !.pc = "viewsUpdate",
       !.updatedView =
          [type |-> cf.currentView.type, callback_id |-> cf.currentView.callback_id,
           title |-> cf.currentView.title, submit |-> cf.currentView.submit,
           close |-> cf.currentView.close,
           blocks |-> UpdatedBlocks(cf.currentView,
                                    ProjectOptions(FilteredProjects(cf.selectedClient)))]]
  /\ UNCHANGED view

\* client.views.update: Slack shows the view it was given, answers ok: false, or
\* the call rejects and the handler logs it.
ViewsUpdate(answer) ==
  /\ cf.pc = "viewsUpdate"
  /\ view' = IF answer = "ok" THEN cf.updatedView ELSE view
  /\ cf' = [cf EXCEPT !.pc = "done"]

\* The bot is started on a database in use.
StoreInUse ==
  /\ projects \in SampleProjects
  /\ users = {} /\ updates = {}
  /\ nextId = [users |-> 0, projects |-> Cardinality(projects), updates |-> 0]
  /\ clock = Cardinality(projects)
  /\ h = [p \in Procs |-> IdleHandler]
  /\ started = 0
  /\ resetPc = "idle"
  /\ created = {}

InitView ==
  Init /\ DbInit /\ StoreInUse /\ ViewInit /\ DigestInit /\ HttpInit

notViewVars == << vars, dbVars, digestVars, httpVars >>

NextView ==
  \/ UNCHANGED << notViewVars, storeVars >> /\ OpenModal
  \/ UNCHANGED << notViewVars, storeVars >> /\
       \E selectedClient \in {"all_clients", "no_clients", "Acme", "Acme Labs"} :
         SelectClient(selectedClient)
  \/ UNCHANGED << notViewVars, storeVars >> /\ FilterProjects
  \/ UNCHANGED << notViewVars, storeVars >> /\
       \E answer \in {"ok", "not ok", "rejected"} : ViewsUpdate(answer)
  \/ UNCHANGED << notViewVars, viewVars >> /\ ResetStart
  \/ UNCHANGED << notViewVars, viewVars >> /\ ResetUpdates
  \/ UNCHANGED << notViewVars, viewVars >> /\ ResetProjects
  \/ UNCHANGED << notViewVars, viewVars >> /\ ResetUsers

SpecView == InitView /\ [][NextView]_allVars

BlocksWithId(someView, id) ==
  { i \in DOMAIN someView.blocks : someView.blocks[i].block_id = id }

\* C17: the view handleClientFilterSelection hands to views.update has the type,
\* callback_id, title, submit and close of the current view and its blocks, except
\* for the one block project_select, which is the rebuilt dropdown with at least one
\* option.
C17_OnlyProjectSelectReplaced ==
  cf.pc \in {"viewsUpdate", "done"} =>
    /\ cf.updatedView.type = cf.currentView.type
    /\ cf.updatedView.callback_id = cf.currentView.callback_id
    /\ cf.updatedView.title = cf.currentView.title
    /\ cf.updatedView.submit = cf.currentView.submit
    /\ cf.updatedView.close = cf.currentView.close
    /\ DOMAIN cf.updatedView.blocks = DOMAIN cf.currentView.blocks
    /\ Cardinality(BlocksWithId(cf.currentView, "project_select")) = 1
    /\ \A i \in DOMAIN cf.currentView.blocks :
         IF i \in BlocksWithId(cf.currentView, "project_select")
           THEN /\ cf.updatedView.blocks[i].block_id = "project_select"
                /\ cf.updatedView.blocks[i].action_id = "project_dropdown"
                /\ Len(cf.updatedView.blocks[i].options) >= 1
           ELSE cf.updatedView.blocks[i] = cf.currentView.blocks[i]

\* The filter found no project (the tables were emptied after the modal was opened)
\* in a view whose dropdown had been rebuilt before.
C17_Witness ==
  /\ cf.pc = "done"
  /\ cf.selectedClient = "Acme Labs"
  /\ cf.currentView.blocks[2].placeholder = "Select a project to update"
  /\ Len(cf.currentView.blocks[2].options) = 2
  /\ view = cf.updatedView
  /\ view.blocks[2].options[1].value = "no_projects"

\* ------------------------------------------------------- the weekly digest

MaxCalls == 4

\* The n-th task cron.schedule returns.
Task(n) ==
  << "task1", "task2", "task3", "task4", "task5", "task6" >>[n]

\* Mutant: scheduleWeeklyDigest without its guard.
AlreadyScheduledNever ==
  FALSE

\* if (this.isScheduled) return;
AlreadyScheduled ==
  isScheduled

\* scheduleWeeklyDigest(): cron.schedule(..., { scheduled: true }) starts the task.
ScheduleWeeklyDigest ==
  /\ Len(callLog) < MaxCalls
  /\ callLog' = Append(callLog, "schedule")
  /\ IF AlreadyScheduled
       THEN UNCHANGED << isScheduled, cronTask, liveTasks, tasksCreated >>
       ELSE /\ tasksCreated' = tasksCreated + 1
            /\ cronTask' = Task(tasksCreated')
            /\ liveTasks' = liveTasks \cup {Task(tasksCreated')}
            /\ isScheduled' = TRUE
  /\ UNCHANGED << generalChannelId, run >>

\* stopScheduledDigest(): the task's stop() ends its schedule.
StopScheduledDigest ==
  /\ Len(callLog) < MaxCalls
  /\ callLog' = Append(callLog, "stop")
  /\ liveTasks' = IF cronTask # Null THEN liveTasks \ {cronTask} ELSE liveTasks
  /\ cronTask' = Null
  /\ isScheduled' = FALSE
  /\ UNCHANGED << tasksCreated, generalChannelId, run >>

\* A run begins: logger.info, then the first await.
StartRun(r) ==
  /\ run[r].pc \in {"idle", "done"}
  /\ run' = [run EXCEPT ![r] = [IdleRun EXCEPT !.pc = "getActiveProjects"]]
  /\ UNCHANGED << isScheduled, cronTask, liveTasks, tasksCreated, callLog, generalChannelId >>

\* Monday 9:00: a live task calls generateAndSendDigest.
CronFires ==
  /\ liveTasks # {}
  /\ StartRun("cron")

\* SlackApp.triggerWeeklyDigest, for POST /trigger-digest.
TriggerWeeklyDigest ==
  StartRun("manual")

\* The pc after each await of the try block.
AfterAwait(at) ==
  CASE at = "getActiveProjects" -> "getRecentUpdates"
    [] at = "getRecentUpdates" -> "getProjectStats"
    [] at = "getProjectStats" -> "generateWeeklyDigest"
    [] at = "generateWeeklyDigest" -> "createDigestBlocks"
    [] OTHER -> "done"

\* One of the three reads of projectService settles; a rejection passes to the
\* catch block.
DigestRead(r, ok) ==
  /\ run[r].pc \in {"getActiveProjects", "getRecentUpdates", "getProjectStats"}
  /\ run' = [run EXCEPT ![r].pc = IF ok THEN AfterAwait(run[r].pc) ELSE "fallback",
                         ![r].failed = ~ ok]
  /\ UNCHANGED << isScheduled, cronTask, liveTasks, tasksCreated, callLog, generalChannelId >>

\* openaiService.generateWeeklyDigest resolves, with the AI's digest or its own
\* fallback text.
GenerateWeeklyDigest(r) ==
  /\ run[r].pc = "generateWeeklyDigest"
  /\ run' = [run EXCEPT ![r].pc = "createDigestBlocks"]
  /\ UNCHANGED << isScheduled, cronTask, liveTasks, tasksCreated, callLog, generalChannelId >>

\* createDigestBlocks, then the check of GENERAL_CHANNEL_ID: without it the run
\* returns.
CreateDigestBlocks(r) ==
  /\ run[r].pc = "createDigestBlocks"
  /\ run' = [run EXCEPT ![r] =
       IF generalChannelId = NoValue
         THEN [run[r] EXCEPT !.pc = "done", !.outcome = "resolved"]
         ELSE [run[r] EXCEPT !.pc = "postMessage"]]
  /\ UNCHANGED << isScheduled, cronTask, liveTasks, tasksCreated, callLog, generalChannelId >>

\* chat.postMessage of the digest: it posts and resolves, or rejects.
PostDigest(r, ok) ==
  /\ run[r].pc = "postMessage"
  /\ run' = [run EXCEPT ![r] =
       IF ok
         THEN [run[r] EXCEPT !.pc = "done", !.outcome = "resolved",
                             !.posted = Append(@, "digest")]
         ELSE [run[r] EXCEPT !.pc = "fallback", !.failed = TRUE]]
  /\ UNCHANGED << isScheduled, cronTask, liveTasks, tasksCreated, callLog, generalChannelId >>

\* Mutant: the fallback postMessage is not in a try block of its own.
FallbackSettlesRethrowing(ok) ==
  IF ok THEN "resolved" ELSE "rejected"

\* How the run settles after the fallback postMessage: its rejection is logged.
FallbackSettles(ok) ==
  "resolved"

\* The catch block: the fallback postMessage; without a channel Slack rejects it.
PostFallback(r, ok) ==
  /\ run[r].pc = "fallback"
  /\ ok => generalChannelId # NoValue
  /\ run' = [run EXCEPT ![r].pc = "done",
                         ![r].fallbackAttempts = @ + 1,
                         ![r].posted = IF ok THEN Append(@, "fallback") ELSE @,
                         ![r].outcome = FallbackSettles(ok)]
  /\ UNCHANGED << isScheduled, cronTask, liveTasks, tasksCreated, callLog, generalChannelId >>

\* The environment may or may not name the general channel.
InitDigest ==
  /\ Init /\ DbInit /\ StoreInit /\ ViewInit /\ HttpInit
  /\ DigestConstructed
  /\ generalChannelId \in {"C0GENERAL", NoValue}

notDigestVars == << vars, dbVars, storeVars, viewVars, httpVars >>

NextDigest ==
  \/ UNCHANGED notDigestVars /\ ScheduleWeeklyDigest
  \/ UNCHANGED notDigestVars /\ StopScheduledDigest
  \/ UNCHANGED notDigestVars /\ CronFires
  \/ UNCHANGED notDigestVars /\ TriggerWeeklyDigest
  \/ UNCHANGED notDigestVars /\ \E r \in DigestRuns, ok \in BOOLEAN : DigestRead(r, ok)
  \/ UNCHANGED notDigestVars /\ \E r \in DigestRuns : GenerateWeeklyDigest(r)
  \/ UNCHANGED notDigestVars /\ \E r \in DigestRuns : CreateDigestBlocks(r)
  \/ UNCHANGED notDigestVars /\ \E r \in DigestRuns, ok \in BOOLEAN : PostDigest(r, ok)
  \/ UNCHANGED notDigestVars /\ \E r \in DigestRuns, ok \in BOOLEAN : PostFallback(r, ok)

SpecDigest == InitDigest /\ [][NextDigest]_allVars

\* C19: no run of generateAndSendDigest rejects; a run that failed (a read of the
\* projects or the posting of the digest rejected) has attempted the fallback message
\* exactly once when it ends, a run that did not fail never attempts it; and a run
\* posts at most one message.
C19_DigestNeverThrows ==
  \A r \in DigestRuns :
    /\ run[r].outcome # "rejected"
    /\ Len(run[r].posted) <= 1
    /\ run[r].fallbackAttempts <= 1
    /\ run[r].fallbackAttempts = 1 => run[r].failed
    /\ run[r].failed => "digest" \notin { run[r].posted[i] : i \in DOMAIN run[r].posted }
    /\ run[r].pc = "done" =>
         /\ run[r].outcome = "resolved"
         /\ run[r].fallbackAttempts = IF run[r].failed THEN 1 ELSE 0

\* The cron run failed and its fallback message was refused as well; the manual run
\* posted its digest.
C19_Witness ==
  /\ run["cron"].pc = "done" /\ run["cron"].failed
  /\ run["cron"].fallbackAttempts = 1 /\ run["cron"].posted = << >>
  /\ run["manual"].pc = "done" /\ run["manual"].posted = << "digest" >>

\* C20: at most one cron task is live, isScheduled is true exactly when cronTask is
\* set, the live task is the one cronTask holds, and scheduleWeeklyDigest called while
\* scheduled creates no task and changes no field.
C20_AtMostOneCronTask ==
  /\ [](/\ Cardinality(liveTasks) <= 1
         /\ isScheduled <=> cronTask # Null
         /\ liveTasks = IF cronTask = Null THEN {} ELSE {cronTask})
  /\ [][(isScheduled /\ callLog' = Append(callLog, "schedule")) =>
           /\ tasksCreated' = tasksCreated
           /\ liveTasks' = liveTasks
           /\ cronTask' = cronTask
           /\ isScheduled']_allVars

C20_Witness ==
  /\ callLog = << "schedule", "schedule", "stop", "schedule" >>
  /\ tasksCreated = 2
  /\ isScheduled /\ cronTask = Task(2) /\ liveTasks = {Task(2)}

\* ------------------------------------------------- the HTTP server and the lifecycle

MaxRequests == 3

\* The process has not exited.
Alive ==
  exitCode = NoExit

\* process.exit(code).
ProcessExit(code) ==
  exitCode' = code

\* start(): up to the first await, testConnection().
StartBot ==
  /\ Alive
  /\ botPc = "constructed"
  /\ botPc' = "testConnection"
  /\ UNCHANGED << stopPc, slackApp, server, database, isShuttingDown, shutdownTimeout,
                  timerFired, signals, exitCode, events >>
  /\ UNCHANGED << monitorVars, digestVars >>

\* Mutant: start() goes on to the Slack app whatever testConnection() did.
TestConnectionSettlesUnchecked(ok) ==
  /\ Alive
  /\ botPc = "testConnection"
  /\ botPc' = "slackStart"
  /\ database' = IF ok THEN "connected" ELSE database
  /\ slackApp' = "created"
  /\ events' = IF ok THEN Append(events, "connected") ELSE events
  /\ UNCHANGED << stopPc, server, isShuttingDown, shutdownTimeout, timerFired, signals,
                  exitCode >>
  /\ UNCHANGED << monitorVars, digestVars >>

\* testConnection() settles: this.slackApp = new SlackApp() and the await of its
\* start(), or the catch block.
TestConnectionSettles(ok) ==
  /\ Alive
  /\ botPc = "testConnection"
  /\ botPc' = IF ok THEN "slackStart" ELSE "startFailed"
  /\ database' = IF ok THEN "connected" ELSE database
  /\ slackApp' = IF ok THEN "created" ELSE slackApp
  /\ events' = IF ok THEN Append(events, "connected") ELSE events
  /\ UNCHANGED << stopPc, server, isShuttingDown, shutdownTimeout, timerFired, signals,
                  exitCode >>
  /\ UNCHANGED << monitorVars, digestVars >>

\* SlackApp.start() settles: after app.start() it schedules the digest, and start()
\* goes on to app.listen; a rejection is rethrown to the catch block of start().
SlackAppStart(ok) ==
  /\ Alive
  /\ botPc = "slackStart"
  /\ IF ok
       THEN /\ ScheduleWeeklyDigest
            /\ slackApp' = "started"
            /\ server' = "listening"
            /\ botPc' = "running"
            /\ events' = events \o << "slackStarted", "listening" >>
       ELSE /\ botPc' = "startFailed"
            /\ UNCHANGED << slackApp, server, events >>
            /\ UNCHANGED digestVars
  /\ UNCHANGED << stopPc, database, isShuttingDown, shutdownTimeout, timerFired,
                  signals, exitCode >>
  /\ UNCHANGED monitorVars

\* cleanup(): disconnect() raced with its timer, errors swallowed.
Cleanup ==
  /\ database' = "disconnected"
  /\ events' = Append(events, "disconnect")

\* The catch block of start(): cleanup(), process.exit(1).
StartFailed ==
  /\ Alive
  /\ botPc = "startFailed"
  /\ Cleanup
  /\ ProcessExit(1)
  /\ UNCHANGED << botPc, stopPc, slackApp, server, isShuttingDown, shutdownTimeout,
                  timerFired, signals >>
  /\ UNCHANGED << monitorVars, digestVars >>

\* stop() after the Slack app: if (this.server) server.close, else the wait of 2 s.
AfterSlackApp ==
  IF server # "null" THEN "serverClose" ELSE "wait"

\* Mutant: gracefulShutdown without the timer that forces the exit.
ShutdownTimeoutNotSet ==
  FALSE

\* shutdownTimeout = setTimeout(() => process.exit(1), 25000).
ShutdownTimeoutSet ==
  TRUE

\* SIGTERM or SIGINT: gracefulShutdown. A second signal exits with code 1; the
\* first arms the timer and calls bot.stop(), which runs up to its first await.
GracefulShutdown ==
  /\ Alive
  /\ signals' = signals + 1
  /\ IF isShuttingDown
       THEN /\ ProcessExit(1)
            /\ UNCHANGED << stopPc, server, isShuttingDown, shutdownTimeout >>
       ELSE /\ isShuttingDown' = TRUE
            /\ shutdownTimeout' = ShutdownTimeoutSet
            /\ stopPc' = IF slackApp # "null" THEN "slackStop" ELSE AfterSlackApp
            /\ server' = IF slackApp = "null" /\ server = "listening"
                           THEN "closing" ELSE server
            /\ UNCHANGED exitCode
  /\ UNCHANGED << botPc, slackApp, database, timerFired, events >>
  /\ UNCHANGED << monitorVars, digestVars >>

\* The 25 s timer fires: process.exit(1).
ForceExit ==
  /\ Alive
  /\ shutdownTimeout
  /\ timerFired' = TRUE
  /\ ProcessExit(1)
  /\ UNCHANGED << botPc, stopPc, slackApp, server, database, isShuttingDown,
                  shutdownTimeout, signals, events >>
  /\ UNCHANGED << monitorVars, digestVars >>

\* SlackApp.stop() settles: after app.stop() it stops the scheduled digest and
\* stop() goes on to server.close; a rejection skips stopScheduledDigest, is
\* rethrown by stop(), and gracefulShutdown exits with code 1.
SlackAppStop(ok) ==
  /\ Alive
  /\ stopPc = "slackStop"
  /\ IF ok
       THEN /\ StopScheduledDigest
            /\ slackApp' = "stopped"
            /\ stopPc' = AfterSlackApp
            /\ server' = IF server = "listening" THEN "closing" ELSE server
            /\ events' = Append(events, "slackStopped")
            /\ UNCHANGED << shutdownTimeout, exitCode >>
       ELSE /\ stopPc' = "rejected"
            /\ shutdownTimeout' = FALSE
            /\ ProcessExit(1)
            /\ UNCHANGED << slackApp, server, events >>
            /\ UNCHANGED digestVars
  /\ UNCHANGED << botPc, database, isShuttingDown, timerFired, signals >>
  /\ UNCHANGED monitorVars

\* The callback of this.server.close(): every connection has ended; then the wait
\* of 2 s begins.
ServerClose ==
  /\ Alive
  /\ stopPc = "serverClose"
  /\ ~ pendingTrigger
  /\ server' = "closed"
  /\ stopPc' = "wait"
  /\ events' = Append(events, "serverClosed")
  /\ UNCHANGED << botPc, slackApp, database, isShuttingDown, shutdownTimeout,
                  timerFired, signals, exitCode >>
  /\ UNCHANGED << monitorVars, digestVars >>

\* The wait of 2 s ends: stop() calls cleanup().
StopWait ==
  /\ Alive
  /\ stopPc = "wait"
  /\ stopPc' = "cleanup"
  /\ UNCHANGED << botPc, slackApp, server, database, isShuttingDown, shutdownTimeout,
                  timerFired, signals, exitCode, events >>
  /\ UNCHANGED << monitorVars, digestVars >>

\* cleanup() settles: stop() returns, gracefulShutdown clears the timer and calls
\* process.exit(0).
StopCleanup ==
  /\ Alive
  /\ stopPc = "cleanup"
  /\ Cleanup
  /\ stopPc' = "done"
  /\ shutdownTimeout' = FALSE
  /\ ProcessExit(0)
  /\ UNCHANGED << botPc, slackApp, server, isShuttingDown, timerFired, signals >>
  /\ UNCHANGED << monitorVars, digestVars >>

\* A request reaches the middleware: requestLogger logs it and the health monitor
\* counts it.
Incoming(url) ==
  /\ Alive
  /\ server = "listening"
  /\ requestCount < MaxRequests
  /\ requestLog' = Append(requestLog, url)
  /\ requestCount' = requestCount + 1

\* res.end as the health monitor wraps it: a status of 500 or more is an error.
ResEnd(url, response) ==
  /\ responses' = Append(responses, [url |-> url, status |-> response.status,
                                     body |-> response.body])
  /\ errorCount' = IF response.status >= 500 THEN errorCount + 1 ELSE errorCount

\* Mutant: a health check that fails during the shutdown.
HealthHandlerWhileShuttingDown ==
  IF isShuttingDown
    THEN [status |-> 503, body |-> "Shutting down"]
    ELSE [status |-> 200, body |-> "OK"]

\* app.get('/health'): res.status(200).send('OK').
HealthHandler ==
  [status |-> 200, body |-> "OK"]

\* GET /health.
GetHealth ==
  /\ Incoming("/health")
  /\ ResEnd("/health", HealthHandler)
  /\ healthSeen' = healthSeen \cup {stopPc}
  /\ UNCHANGED pendingTrigger
  /\ UNCHANGED << lifeVars, digestVars >>

\* The answer after await this.slackApp.triggerWeeklyDigest(): success when the
\* promise resolved, the catch block's 500 when it rejected.
TriggerDigestAnswer(r) ==
  IF r.outcome = "resolved"
    THEN [status |-> 200, body |-> "Weekly digest triggered successfully"]
    ELSE [status |-> 500, body |-> "Failed to trigger digest"]

\* POST /trigger-digest: 503 without a Slack app, else the await of
\* triggerWeeklyDigest().
PostTriggerDigest ==
  /\ ~ pendingTrigger
  /\ Incoming("/trigger-digest")
  /\ IF slackApp = "null"
       THEN /\ ResEnd("/trigger-digest",
                      [status |-> 503, body |-> "Slack app not initialized"])
            /\ UNCHANGED pendingTrigger
            /\ UNCHANGED digestVars
       ELSE /\ TriggerWeeklyDigest
            /\ pendingTrigger' = TRUE
            /\ UNCHANGED << responses, errorCount >>
  /\ UNCHANGED healthSeen
  /\ UNCHANGED lifeVars

\* triggerWeeklyDigest() settled: the answer is sent.
TriggerDigestResponds ==
  /\ Alive
  /\ pendingTrigger
  /\ run["manual"].pc = "done"
  /\ ResEnd("/trigger-digest", TriggerDigestAnswer(run["manual"]))
  /\ pendingTrigger' = FALSE
  /\ UNCHANGED << requestCount, requestLog, healthSeen >>
  /\ UNCHANGED << lifeVars, digestVars >>

\* A step of the digest while the process lives.
DigestStep(A) ==
  /\ Alive
  /\ A
  /\ UNCHANGED httpVars

InitHttp ==
  /\ Init /\ DbInit /\ StoreInit /\ ViewInit /\ HttpInit
  /\ DigestConstructed
  /\ generalChannelId \in {"C0GENERAL", NoValue}

notHttpVars == << vars, dbVars, storeVars, viewVars >>

NextHttp ==
  \/ UNCHANGED notHttpVars /\ StartBot
  \/ UNCHANGED notHttpVars /\ \E ok \in BOOLEAN : TestConnectionSettles(ok)
  \/ UNCHANGED notHttpVars /\ \E ok \in BOOLEAN : SlackAppStart(ok)
  \/ UNCHANGED notHttpVars /\ StartFailed
  \/ UNCHANGED notHttpVars /\ GracefulShutdown
  \/ UNCHANGED notHttpVars /\ ForceExit
  \/ UNCHANGED notHttpVars /\ \E ok \in BOOLEAN : SlackAppStop(ok)
  \/ UNCHANGED notHttpVars /\ ServerClose
  \/ UNCHANGED notHttpVars /\ StopWait
  \/ UNCHANGED notHttpVars /\ StopCleanup
  \/ UNCHANGED notHttpVars /\ GetHealth
  \/ UNCHANGED notHttpVars /\ PostTriggerDigest
  \/ UNCHANGED notHttpVars /\ TriggerDigestResponds
  \/ UNCHANGED notHttpVars /\ DigestStep(CronFires)
  \/ UNCHANGED notHttpVars /\ \E r \in DigestRuns, ok \in BOOLEAN : DigestStep(DigestRead(r, ok))
  \/ UNCHANGED notHttpVars /\ \E r \in DigestRuns : DigestStep(GenerateWeeklyDigest(r))
  \/ UNCHANGED notHttpVars /\ \E r \in DigestRuns : DigestStep(CreateDigestBlocks(r))
  \/ UNCHANGED notHttpVars /\ \E r \in DigestRuns, ok \in BOOLEAN : DigestStep(PostDigest(r, ok))
  \/ UNCHANGED notHttpVars /\ \E r \in DigestRuns, ok \in BOOLEAN : DigestStep(PostFallback(r, ok))

SpecHttp == InitHttp /\ [][NextHttp]_allVars

\* The timer of gracefulShutdown fires once its 25 s have passed.
FairSpecHttp == SpecHttp /\ WF_allVars(UNCHANGED notHttpVars /\ ForceExit)

\* C16: every GET /health that reaches the listening server is answered with status
\* 200 and the body 'OK', whatever the Slack app, the database, the shutdown and the
\* digest are doing, and the step changes nothing but the monitor's request counter
\* (and the record of the exchange); while the server listens a health check can
\* always be served.
C16_HealthAlwaysOk ==
  /\ [](\A i \in DOMAIN responses :
          responses[i].url = "/health" =>
            responses[i].status = 200 /\ responses[i].body = "OK")
  /\ []((Alive /\ server = "listening" /\ requestCount < MaxRequests) =>
          ENABLED (UNCHANGED notHttpVars /\ GetHealth))
  /\ [][requestLog' = Append(requestLog, "/health") =>
          /\ responses' = Append(responses, [url |-> "/health", status |-> 200,
                                             body |-> "OK"])
          /\ requestCount' = requestCount + 1
          /\ UNCHANGED << lifeVars, errorCount, pendingTrigger >>
          /\ UNCHANGED << vars, dbVars, storeVars, viewVars, digestVars >>]_allVars

\* Health checks were answered before the shutdown and while stop() awaits the stop
\* of the Slack app, the latter with a manual digest run under way.
C16_Witness ==
  /\ healthSeen = {"idle", "slackStop"}
  /\ server = "listening" /\ isShuttingDown /\ Alive
  /\ pendingTrigger /\ run["manual"].pc = "postMessage"
  /\ Len(responses) = 2
  /\ \A i \in DOMAIN responses : responses[i] = [url |-> "/health", status |-> 200, body |-> "OK"]

\* The position of the first e in the history, 0 if it is not there.
Pos(e) ==
  IF \E i \in DOMAIN events : events[i] = e
    THEN CHOOSE i \in DOMAIN events :
           events[i] = e /\ \A j \in DOMAIN events : events[j] = e => i <= j
    ELSE 0

\* C21: in a graceful shutdown the cleanup of stop() disconnects the database only
\* after the Slack app, if there is one, was stopped and after that the HTTP server,
\* if there is one, was closed; and whenever gracefulShutdown ends the process after
\* bot.stop() settled (exit 0 after its return, exit 1 after its rejection) the
\* disconnect has been attempted.
C21_DisconnectLastOnEveryPath ==
  /\ [][(stopPc = "cleanup" /\ stopPc' = "done") =>
          /\ slackApp # "null" => Pos("slackStopped") > 0
          /\ server # "null" =>
               /\ events'[Len(events')] = "disconnect"
               /\ Pos("serverClosed") > Pos("slackStopped")
               /\ Pos("slackStopped") > 0
               /\ server = "closed"]_allVars
  /\ []((isShuttingDown /\ stopPc \in {"done", "rejected"} /\ ~ Alive) =>
          \E i \in DOMAIN events : events[i] = "disconnect")

\* C22: whenever SlackApp.stop() finishes, by returning or by throwing, the weekly
\* digest is not scheduled: isScheduled is false, cronTask is null and no cron task
\* is live.
C22_StopUnschedules ==
  [][(stopPc = "slackStop" /\ stopPc' # "slackStop") =>
       /\ ~ isScheduled'
       /\ cronTask' = Null
       /\ liveTasks' = {}]_allVars

\* C23: once a signal was received the process eventually exits, even when the
\* awaits of bot.stop() never settle; it has exit code 0 only if stop() completed,
\* the 25 s timer did not fire and no second signal came; and a signal received
\* during the shutdown exits at once with code 1.
C23_ShutdownEndsTheProcess ==
  /\ (signals > 0) ~> ~ Alive
  /\ [](exitCode = 0 =>
          /\ stopPc = "done"
          /\ ~ timerFired
          /\ signals = 1)
  /\ [][(isShuttingDown /\ signals' = signals + 1) => exitCode' = 1]_allVars

\* stop() still awaited the stop of the Slack app when the timer ended the process.
C23_Witness ==
  /\ ~ Alive /\ exitCode = 1
  /\ timerFired /\ signals = 1
  /\ stopPc = "slackStop" /\ slackApp = "started"

C25_TriggerDigestReportsTheRun ==
  /\ [][(pendingTrigger /\ ~ pendingTrigger') =>
          LET answer == responses'[Len(responses')]
              posted == run["manual"].posted = << "digest" >>
          IN  /\ answer.url = "/trigger-digest"
              /\ answer.status = 200 => posted
              /\ ~ posted =>
                   answer.status = 500 /\ answer.body = "Failed to trigger digest"]_allVars
  /\ [][(requestLog' = Append(requestLog, "/trigger-digest") /\ slackApp = "null") =>
          /\ responses'[Len(responses')].status = 503
          /\ run' = run]_allVars

\* The rows of the project a handler invocation works on, before and after a step.
ProjectRow(p) ==
  { r \in projects : r.id = h[p].projectId }

ProjectRowAfter(p) ==
  { r \in projects' : r.id = h[p].projectId }

\* C26: a project-update submission without a project selection, or with the
\* 'no_projects' placeholder, is acknowledged with an error on project_select and
\* ends there: no user, update or project is created or changed by it and no message
\* is sent.
C26_InvalidSelectionChangesNothing ==
  /\ [](\A p \in Procs :
          (h[p].op = "update" /\ h[p].projectId \in {NoValue, "no_projects"}) =>
            /\ h[p].ack = "errors" /\ h[p].ackErrors = "project_select"
            /\ h[p].pc = "done" /\ h[p].msg = "none"
            /\ h[p].user = Null /\ h[p].update = Null)
  /\ [][\A p \in Procs :
          (h'[p] # h[p] /\ h'[p].op = "update"
             /\ h'[p].projectId \in {NoValue, "no_projects"}) =>
            UNCHANGED << users, projects, updates, nextId, clock, created >>]_allVars

\* The placeholder was submitted while a project and its creator exist.
C26_Witness ==
  /\ projects # {} /\ users # {}
  /\ \E p \in Procs :
       /\ h[p].op = "update" /\ h[p].projectId = "no_projects"
       /\ h[p].ack = "errors" /\ h[p].pc = "done"

\* C27: the write of a project-update submission leaves the stored status as it is
\* when 'Keep current status' or the stored status was selected, and leaves
\* assignedTo as it is when 'Keep current project lead' was selected or the lead's
\* Slack info could not be fetched; a column changes only to a selected value that
\* differs from the stored one; once a submission with 'No Project Lead' has passed
\* its write, assignedTo is null; and no other step of the submission changes status
\* or assignedTo.
C27_KeepCurrentStatusAndLead ==
  [][\A p \in Procs :
       (h[p].op = "update" /\ h'[p] # h[p] /\ h[p].pc \notin {"idle", "done"}) =>
         \A r \in ProjectRow(p), r2 \in ProjectRowAfter(p) :
           /\ h[p].pc # "write" =>
                r2.status = r.status /\ r2.assignedTo = r.assignedTo
           /\ (h[p].newStatus = "no_change" \/ h[p].newStatus = r.status) =>
                r2.status = r.status
           /\ (\/ h[p].newAssignee = "no_change"
               \/ (h[p].newAssignee # "unassigned" /\ h[p].who = "creator")) =>
                r2.assignedTo = r.assignedTo
           /\ r2.status # r.status =>
                r2.status = h[p].newStatus /\ h[p].newStatus # "no_change"
           /\ r2.assignedTo # r.assignedTo => h[p].newAssignee # "no_change"
           /\ (h[p].pc = "write" /\ h'[p].pc = "confirm"
                 /\ h[p].newAssignee = "unassigned") =>
                r2.assignedTo = Null]_allVars

\* C28: when the error message of a project-update submission is sent, the
\* submission has stored no ProjectUpdate (and so, the write coming later, no change
\* of status or lead); when the confirmation is sent, its update was stored.
C28_AllOrNothing ==
  [][\A p \in Procs :
       h[p].op = "update" =>
         /\ (h'[p].msg = "error" /\ h[p].msg # "error") => h[p].update = Null
         /\ (h'[p].msg = "confirmation" /\ h[p].msg # "confirmation") =>
              [id |-> h[p].update, table |-> "updates"] \in created]_allVars

\* C29: every invocation of handleProjectUpdateSubmission is acknowledged, with
\* errors exactly for an invalid selection and plainly otherwise; the
\* acknowledgement is given in the step that starts the invocation, before any read
\* or write of the database and the AI call, and is not given again.
C29_AckOnceBeforeWork ==
  /\ [](\A p \in Procs :
          h[p].op = "update" =>
            /\ h[p].ack = IF h[p].projectId \in {NoValue, "no_projects"}
                            THEN "errors" ELSE "ok"
            /\ h[p].pc \notin {"idle", "done"} => h[p].ack = "ok")
  /\ [][\A p \in Procs :
          (h'[p].op = "update" /\ h'[p].ack # h[p].ack) =>
            /\ h[p].pc \in {"idle", "done"}
            /\ started' = started + 1
            /\ h'[p].user = Null /\ h'[p].project = Null /\ h'[p].update = Null
            /\ UNCHANGED << users, projects, updates, nextId, clock, created >>]_allVars
  /\ [][\A p \in Procs :
          (h[p].op = "update" /\ h'[p].op = "update" /\ h[p].pc \notin {"idle", "done"}) =>
            h'[p].ack = h[p].ack]_allVars

\* One submission was acknowledged plainly and confirmed, the other was refused.
C29_Witness ==
  /\ h[1].op = "update" /\ h[1].ack = "ok" /\ h[1].msg = "confirmation"
  /\ h[2].op = "update" /\ h[2].ack = "errors" /\ h[2].pc = "done"

\* C30: no call of findOrCreateUser fails on the unique constraint, no two users
\* share a Slack id, and a user's record, once created, is never changed by a later
\* call.
C30_FindOrCreateUserConcurrent ==
  /\ [](\A p \in Procs :
          h[p].error # "Unique constraint failed on the fields: (slack_user_id)")
  /\ [](\A u1 \in users, u2 \in users : u1.slackUserId = u2.slackUserId => u1 = u2)
  /\ [][\A u1 \in users, u2 \in users' : u2.id = u1.id => u2 = u1]_allVars

====
